---- MODULE Spec2Model ----
(***************************************************************************)
(* Verification model of omega-bull-data-manager.                          *)
(*                                                                         *)
(*   Spec      the columnar ring buffer: one ColumnarWriter and one        *)
(*             ColumnarReader on the same shared region, interleaved at    *)
(*             every shared-memory access.                                 *)
(*   SpecQuiet the same writer and reader, each call running to its end    *)
(*             before the other side takes a step (no append in progress   *)
(*             during a read).                                             *)
(*   SpecPub   the snapshot publisher, SharedMemoryManager.write_data,     *)
(*             statement by statement, over every batch.                   *)
(*   SpecShm   the publisher and one StockDataReader.get_stock on its      *)
(*             region, interleaved at every cell of the region.            *)
(*   SpecShmLive  the same with one ticker published and the reader's      *)
(*             thread scheduled fairly.                                    *)
(*   SpecIbkr  the arbitration of the IBKR connection by the control-plane *)
(*             server, its clients and the data-acquisition collaborator.  *)
(*   SpecSlice ring_slice on every array and every pair of indices.        *)
(*   SpecServer  NDJSONServer.handle_client on the lines of a connection,  *)
(*             next to the publisher.                                      *)
(*   SpecRegion  the publisher outgrowing its region, next to a server     *)
(*             answering get_shm_name.                                     *)
(*   SpecFund  get_fundamentals over FundamentalsCache and its refresh.    *)
(*   SpecLayout  two writers on the bytes of one region, one per ticker.   *)
(*   SpecReaders  both readers with all their operations, each next to     *)
(*             its writer.                                                 *)
(*   SpecCache  FundamentalsCache: set, get and is_expired as time passes. *)
(*   SpecDownload  the thread of start_downloader_agent next to the        *)
(*             arbitration of the IBKR connection, scheduled fairly.       *)
(***************************************************************************)
EXTENDS Integers, Sequences, FiniteSets, TLC

(***************************************************************************)
(* Bounds of the columnar model.                                           *)
(***************************************************************************)
Capacity == 2          \* ring capacity given to every ticker in the index
MaxAppends == 3        \* append calls in one behaviour of SpecQuiet
MaxRacing == 2         \* append calls in one behaviour of Spec
MaxTs == 1             \* timestamps are drawn from 0..MaxTs

Tickers == {"A", "B"}
TsValues == 0 .. MaxTs
\* the bars the writer is given: one price / volume level per timestamp
Bars == {[ts |-> ts, px |-> 10 + ts] : ts \in TsValues}
NValues == 0 .. (Capacity + 1)
ThresholdValues == (0 - 1) .. MaxTs

\* column order of column_views: ts, o, h, l, c, v
ColNames == <<"ts", "o", "h", "l", "c", "v">>
ColSet == {ColNames[i] : i \in 1 .. 6}
Slots == 0 .. (Capacity - 1)

\* A cell of a column.  val is the stored number; by is a history tag: the
\* ordinal of the append call that stored it (0: never written, the region is
\* zero-filled when it is created).
ZeroCell == [val |-> 0, by |-> 0]

NoHeader == [write_idx |-> 0, capacity |-> 0, last_ts |-> 0, seqlock |-> 0]

VARIABLES
    hdr,        \* hdr[t]: the packed header of ticker t in the region
    col,        \* col[t][c][i]: slot i of column c of ticker t in the region
    wpc,        \* writer position: "idle", "cols", "end"
    wargs,      \* arguments of the append in progress
    wloc,       \* locals of the append in progress: wi, cap, seqlock, k
    wret,       \* value returned by the last completed append
    nApp,       \* history: number of append calls started
    hist,       \* history: hist[t] is the sequence of rows appended to t
    rpc,        \* reader position
    rargs,      \* reader call: op, ticker, n, ts_threshold
    rhdr,       \* reader locals: header, header2, _last_header
    rwin,       \* reader locals: start, end, k (column loop index)
    rcols,      \* reader locals: what ring_slice made of each column
    rmask,      \* view_since: the boolean mask
    rout,       \* view_since: the masked columns
    rghost      \* history of the read in progress

colVars == <<hdr, col>>
wVars == <<wpc, wargs, wloc, wret, nApp, hist>>
rVars == <<rpc, rargs, rhdr, rwin, rcols, rmask, rout, rghost>>

(***************************************************************************)
(* columnar_layout.py                                                      *)
(***************************************************************************)
\* read_header: unpack the four header fields
read_header(t) == hdr[t]

\* write_header: pack and store the four header fields in one slice store
write_header(h, t, write_idx, capacity, last_ts, seqlock) ==
    [h EXCEPT ![t] = [write_idx |-> write_idx, capacity |-> capacity,
                      last_ts |-> last_ts, seqlock |-> seqlock]]

\* Python arr[s:e] for 0 <= s <= e <= len(arr), as a sequence
Slice(arr, s, e) == [i \in 1 .. (e - s) |-> arr[s + i - 1]]

\* faulty variant: start = end gives the buffer in index order
ring_slice_index_order(arr, start, end, capacity) ==
    LET s == start % capacity
        e == end % capacity
    IN  IF s < e THEN Slice(arr, s, e)
        ELSE IF s = e THEN Slice(arr, 0, capacity)
        ELSE Slice(arr, s, capacity) \o Slice(arr, 0, e)

\* faulty variant: a wrapping slice stops at the end of the array
ring_slice_nowrap(arr, start, end, capacity) ==
    LET s == start % capacity
        e == end % capacity
    IN  IF s < e THEN Slice(arr, s, e)
        ELSE Slice(arr, s, capacity)

\* ring_slice(arr, start, end, capacity)
ring_slice(arr, start, end, capacity) ==
    LET s == start % capacity
        e == end % capacity
    IN  IF s < e THEN Slice(arr, s, e)
        ELSE IF s = e THEN Slice(arr, s, capacity) \o Slice(arr, 0, s)
        ELSE Slice(arr, s, capacity) \o Slice(arr, 0, e)

\* ring_slice returns a NumPy view (an alias of the region) when start < end
\* and a copy (np.concatenate) otherwise
ring_slice_is_view(start, end, capacity) == (start % capacity) < (end % capacity)

Min(a, b) == IF a < b THEN a ELSE b

\* ring_slice on its own: the arrays and indices it is called with
SliceCap == 3
SliceArrays == [0 .. (SliceCap - 1) -> 0 .. (SliceCap - 1)]
SliceIndices == 0 .. (2 * SliceCap - 1)
SliceArgs ==
    [arr : SliceArrays, start : SliceIndices, end : SliceIndices, capacity : {SliceCap}]
NoSliceArgs ==
    [arr |-> [i \in 0 .. (SliceCap - 1) |-> 0], start |-> 0, end |-> 0, capacity |-> SliceCap]

VARIABLES
    slice_pc,      \* "idle", "call" or "done"
    slice_args,    \* the arguments of the call of ring_slice
    slice_ret      \* what the call returned

sliceVars == <<slice_pc, slice_args, slice_ret>>

\* no call of ring_slice on its own
SliceIdle ==
    /\ slice_pc = "idle"
    /\ slice_args = NoSliceArgs
    /\ slice_ret = <<>>

\* a call of ring_slice with any arguments
SliceCalled ==
    /\ slice_pc = "call"
    /\ slice_args \in SliceArgs
    /\ slice_ret = <<>>

\* the call returns
RingSliceReturn ==
    /\ slice_pc = "call"
    /\ slice_ret' = ring_slice(slice_args.arr, slice_args.start, slice_args.end,
                               slice_args.capacity)
    /\ slice_pc' = "done"
    /\ UNCHANGED slice_args

(***************************************************************************)
(* columnar_writer.py                                                      *)
(***************************************************************************)
NoArgs == [ticker |-> "", ts |-> 0, px |-> 0]
NoLoc == [wi |-> 0, cap |-> 0, seqlock |-> 0, k |-> 0]
NoRet == <<0, 0>>

\* ColumnarWriter.__init__: every header is (0, capacity, 0, 0)
WriterInit ==
    /\ hdr = [t \in Tickers |->
                [write_idx |-> 0, capacity |-> Capacity, last_ts |-> 0, seqlock |-> 0]]
    /\ col = [t \in Tickers |-> [c \in ColSet |-> [i \in Slots |-> ZeroCell]]]
    /\ wpc = "idle"
    /\ wargs = NoArgs
    /\ wloc = NoLoc
    /\ wret = NoRet
    /\ nApp = 0
    /\ hist = [t \in Tickers |-> << >>]

\* the value append stores in column c: o, h, l, c take the price, v the volume
ArgOf(a, c) == IF c = "ts" THEN a.ts ELSE a.px

\* append, lines 42-47: read the header, publish it with seqlock + 1
AppendBeginSeqlock(header) == header.seqlock + 1

AppendBegin(t, ts, px) ==
    /\ wpc = "idle"
    /\ LET header == read_header(t)
           seqlock == AppendBeginSeqlock(header)
       IN  /\ hdr' = write_header(hdr, t, header.write_idx, header.capacity,
                                  header.last_ts, seqlock)
           /\ wloc' = [wi |-> header.write_idx, cap |-> header.capacity,
                       seqlock |-> seqlock, k |-> 1]
    /\ wargs' = [ticker |-> t, ts |-> ts, px |-> px]
    /\ nApp' = nApp + 1
    /\ wpc' = "cols"
    /\ UNCHANGED <<col, wret, hist>>

\* append, lines 49-55: one column store per step, in the order ts, o, h, l, c, v
\* faulty variant: the row goes into the slot after write_idx
AppendStoreSlot_next(loc) == (loc.wi + 1) % loc.cap

AppendStoreSlot(loc) == loc.wi

AppendStore ==
    /\ wpc = "cols"
    /\ LET c == ColNames[wloc.k]
           t == wargs.ticker
       IN  col' = [col EXCEPT ![t][c][AppendStoreSlot(wloc)] =
                      [val |-> ArgOf(wargs, c), by |-> nApp]]
    /\ wloc' = [wloc EXCEPT !.k = wloc.k + 1]
    /\ wpc' = IF wloc.k = 6 THEN "end" ELSE "cols"
    /\ UNCHANGED <<hdr, wargs, wret, nApp, hist>>

\* append, lines 57-60: advance write_idx, publish the header with
\* seqlock + 1 and last_ts = ts, return (write_idx, ts)
\* faulty variant: the index is advanced without wrapping
AppendNextIdx_nowrap(wi, cap) == wi + 1

AppendNextIdx(wi, cap) == (wi + 1) % cap

\* faulty variant: the end-write header keeps the odd seqlock
AppendEndSeqlock_stuck(loc) == loc.seqlock

AppendEndSeqlock(loc) == loc.seqlock + 1

AppendEnd ==
    /\ wpc = "end"
    /\ LET t == wargs.ticker
           wi == AppendNextIdx(wloc.wi, wloc.cap)
           seqlock == AppendEndSeqlock(wloc)
       IN  /\ hdr' = write_header(hdr, t, wi, wloc.cap, wargs.ts, seqlock)
           /\ wret' = <<wi, wargs.ts>>
           /\ hist' = [hist EXCEPT ![t] =
                          Append(@, [ts |-> wargs.ts, px |-> wargs.px, by |-> nApp,
                                     ret |-> <<wi, wargs.ts>>])]
    /\ wpc' = "idle"
    /\ wargs' = NoArgs
    /\ wloc' = NoLoc
    /\ UNCHANGED <<col, nApp>>

(***************************************************************************)
(* columnar_reader.py                                                      *)
(***************************************************************************)
NoCall == [op |-> "", ticker |-> "", n |-> 0, ts_threshold |-> 0]
NoHdrs == [header |-> NoHeader, header2 |-> NoHeader, last |-> NoHeader]
NoWin == [start |-> 0, end |-> 0, cap |-> 0, k |-> 0, view |-> FALSE]
NoCols == [c \in ColSet |-> << >>]
NoGhost == [stable |-> FALSE, dirty |-> FALSE, quiet |-> FALSE]

ReaderInit ==
    /\ rpc = "idle"
    /\ rargs = NoCall
    /\ rhdr = NoHdrs
    /\ rwin = NoWin
    /\ rcols = NoCols
    /\ rmask = << >>
    /\ rout = NoCols
    /\ rghost = NoGhost

\* history: quiet says that no append was in progress when the call began
\* and that the writer has taken no step since
StartGhost == [stable |-> FALSE, dirty |-> FALSE, quiet |-> (wpc = "idle")]

\* view_last_n(ticker, n) is called
ViewLastNCall(t, n) ==
    /\ rpc = "idle"
    /\ rargs' = [op |-> "view_last_n", ticker |-> t, n |-> n, ts_threshold |-> 0]
    /\ rpc' = "h1"
    /\ rghost' = StartGhost
    /\ UNCHANGED <<rhdr, rwin, rcols, rmask, rout>>

\* view_since(ticker, ts_threshold) is called
ViewSinceCall(t, ts_threshold) ==
    /\ rpc = "idle"
    /\ rargs' = [op |-> "view_since", ticker |-> t, n |-> 0, ts_threshold |-> ts_threshold]
    /\ rpc' = "vs_hdr"
    /\ rghost' = StartGhost
    /\ UNCHANGED <<rhdr, rwin, rcols, rmask, rout>>

\* view_since, lines 53-56: cap = read_header()["capacity"]; view_last_n(ticker, cap)
ViewSinceHeader ==
    /\ rpc = "vs_hdr"
    /\ rargs' = [rargs EXCEPT !.n = read_header(rargs.ticker).capacity]
    /\ rpc' = "h1"
    /\ UNCHANGED <<rhdr, rwin, rcols, rmask, rout, rghost>>

\* _read_cols, lines 32-33: header = read_header(); column_views() only builds
\* aliases of the region and reads no column data
ReadColsHeader ==
    /\ rpc = "h1"
    /\ rhdr' = [rhdr EXCEPT !.header = read_header(rargs.ticker)]
    /\ rpc' = "h2"
    /\ UNCHANGED <<rargs, rwin, rcols, rmask, rout, rghost>>

\* _read_cols, line 35: the condition that sends the reader into its retry
NeedsRetry(header, header2) == header2.seqlock % 2 = 1 \/ header2 # header

\* view_last_n, lines 45-49: the window computed from _last_header
Window(last, n) ==
    LET cap == last.capacity
        nn == Min(n, cap)
        end == last.write_idx
        start == (end - nn) % cap
    IN  [start |-> start, end |-> end, cap |-> cap, k |-> 1,
         view |-> ring_slice_is_view(start, end, cap)]

\* _read_cols, lines 34-35, 39-40 on the path without retry
ReadColsHeader2 ==
    /\ rpc = "h2"
    /\ LET header2 == read_header(rargs.ticker)
       IN  IF NeedsRetry(rhdr.header, header2)
           THEN /\ rhdr' = NoHdrs
                /\ rpc' = "h3"
                /\ UNCHANGED <<rwin, rghost>>
           ELSE /\ rhdr' = [NoHdrs EXCEPT !.last = header2]
                /\ rwin' = Window(header2, rargs.n)
                /\ rghost' = [rghost EXCEPT !.stable = TRUE]
                /\ rpc' = "slice"
    /\ UNCHANGED <<rargs, rcols, rmask, rout>>

\* _read_cols, lines 36-40: "retry once": header2 is read again and kept
\* whatever it holds
ReadColsRetry ==
    /\ rpc = "h3"
    /\ LET header2 == read_header(rargs.ticker)
       IN  /\ rhdr' = [NoHdrs EXCEPT !.last = header2]
           /\ rwin' = Window(header2, rargs.n)
    /\ rpc' = "slice"
    /\ UNCHANGED <<rargs, rcols, rmask, rout, rghost>>

\* history: a read of column data made while the header in the region has
\* an odd seqlock or differs from _last_header
Unstable == hdr[rargs.ticker].seqlock % 2 = 1 \/ hdr[rargs.ticker] # rhdr.last

\* what the array that ring_slice returned for column c holds now: the copy
\* made by np.concatenate, or the region itself through the view
Sliced(c) ==
    IF rwin.view
    THEN ring_slice(col[rargs.ticker][c], rwin.start, rwin.end, rwin.cap)
    ELSE rcols[c]

\* view_last_n, line 50: ring_slice of one column per step
ViewLastNSlice ==
    /\ rpc = "slice"
    /\ LET c == ColNames[rwin.k]
       IN  IF rwin.view
           THEN UNCHANGED <<rcols, rghost>>
           ELSE /\ rcols' = [rcols EXCEPT ![c] =
                       ring_slice(col[rargs.ticker][c], rwin.start, rwin.end, rwin.cap)]
                /\ rghost' = [rghost EXCEPT !.dirty = @ \/ Unstable]
    /\ rwin' = [rwin EXCEPT !.k = IF rwin.k = 6 THEN 1 ELSE rwin.k + 1]
    /\ rpc' = IF rwin.k < 6 THEN "slice"
              ELSE IF rargs.op = "view_since" THEN "mask" ELSE "done"
    /\ UNCHANGED <<rargs, rhdr, rmask, rout>>

\* view_since, lines 57-58: mask = ts > ts_threshold
ViewSinceMask ==
    /\ rpc = "mask"
    /\ LET ts == Sliced("ts")
       IN  rmask' = [i \in 1 .. Len(ts) |-> ts[i].val > rargs.ts_threshold]
    /\ rghost' = [rghost EXCEPT !.dirty = @ \/ (rwin.view /\ Unstable)]
    /\ rpc' = "pick"
    /\ UNCHANGED <<rargs, rhdr, rwin, rcols, rout>>

\* NumPy boolean indexing arr[mask]
RECURSIVE Masked(_, _)
Masked(arr, mask) ==
    IF arr = << >> \/ mask = << >> THEN << >>
    ELSE IF Head(mask) THEN <<Head(arr)>> \o Masked(Tail(arr), Tail(mask))
    ELSE Masked(Tail(arr), Tail(mask))

\* view_since, line 59: col[mask] of one column per step
ViewSincePick ==
    /\ rpc = "pick"
    /\ LET c == ColNames[rwin.k]
       IN  rout' = [rout EXCEPT ![c] = Masked(Sliced(c), rmask)]
    /\ rghost' = [rghost EXCEPT !.dirty = @ \/ (rwin.view /\ Unstable)]
    /\ rwin' = [rwin EXCEPT !.k = IF rwin.k = 6 THEN 1 ELSE rwin.k + 1]
    /\ rpc' = IF rwin.k < 6 THEN "pick" ELSE "done"
    /\ UNCHANGED <<rargs, rhdr, rcols, rmask>>

\* the caller takes the result and the reader is ready for its next call
ReaderReturn ==
    /\ rpc = "done"
    /\ rpc' = "idle"
    /\ rargs' = NoCall
    /\ rhdr' = NoHdrs
    /\ rwin' = NoWin
    /\ rcols' = NoCols
    /\ rmask' = << >>
    /\ rout' = NoCols
    /\ rghost' = NoGhost

\* close: the reader detaches from the region
ColumnarReaderClose ==
    /\ rpc = "idle"
    /\ rpc' = "closed"
    /\ UNCHANGED <<rargs, rhdr, rwin, rcols, rmask, rout, rghost>>

\* __init__: a reader attaches to the region by its name
ColumnarReaderOpen ==
    /\ rpc = "closed"
    /\ rpc' = "idle"
    /\ UNCHANGED <<rargs, rhdr, rwin, rcols, rmask, rout, rghost>>

\* the column c of the tuple the call returned (read in state rpc = "done")
Returned(c) == IF rargs.op = "view_since" THEN rout[c] ELSE Sliced(c)

(***************************************************************************)
(* Snapshot publisher: SharedMemoryManager.write_data                      *)
(***************************************************************************)
SnapTickers == {"X", "Y"}

\* a row of a record's df; Date counts seconds, Close and Volume follow it
Row(p) == [Date |-> p, Close |-> 10 * p, Volume |-> 100 * p]

MaxRows == 2
Dfs == {[i \in 1 .. n |-> Row(i)] : n \in 0 .. MaxRows}

\* a record of get_all_stock_data(): its ticker and the df it serializes
Records == {[ticker |-> t, df |-> d] : t \in SnapTickers, d \in Dfs}

MaxBatchLen == 2
MaxBatches == 2

\* the batches of MaxBatchLen records at most that share one df
Batches ==
    {<<>>} \cup
    UNION {{[i \in 1 .. n |-> [ticker |-> ts[i], df |-> d]] :
                ts \in [1 .. n -> SnapTickers], d \in Dfs} : n \in 1 .. MaxBatchLen}

NoData == [meta |-> [ticker |-> "", by |-> 0], df |-> [rows |-> <<>>, by |-> 0]]
NoEntry == [present |-> FALSE, epoch |-> 0, last_update_ms |-> 0, data |-> NoData]
NewEntry == [present |-> TRUE, epoch |-> 0, last_update_ms |-> 0, data |-> NoData]
NoQuote == [present |-> FALSE, price |-> 0, volume |-> 0, ts_epoch_ms |-> 0]
NoPloc == [batch |-> <<>>, i |-> 0, doc |-> <<>>, pos |-> 0]

\* the cells of the shared-memory region: one entry takes three of them
EntryChunks == 3
RegionChunks == EntryChunks * Cardinality(SnapTickers)
ZeroChunk == [kind |-> "zero", ticker |-> "", epoch |-> 0, by |-> 0, rows |-> <<>>,
              shape |-> 0, gen |-> 0]

\* the names a region can be created under
SegmentNames == {"psm_region", "psm_fresh"}
NoRegion == 0

\* cells of a region too small for one entry
SmallRegion == 1

VARIABLES snapshot_state, shared_dict, dkeys, quote_cache, lock, shm,
          ppc, ploc, clock, pghost,
          shared_mem,   \* the publisher's region: its identity, size and name
          segments      \* the region each name is linked to

pubVars == <<snapshot_state, shared_dict, dkeys, quote_cache, lock, shm,
             ppc, ploc, clock, pghost, shared_mem, segments>>

\* a publisher constructed on a region of the given size
PublisherOn(size) ==
    /\ shared_mem = [id |-> 1, size |-> size, name |-> "psm_region"]
    /\ segments = [n \in SegmentNames |-> IF n = "psm_region" THEN 1 ELSE NoRegion]
    /\ snapshot_state = [epoch |-> 0, last_update_ms |-> 0]
    /\ shared_dict = [t \in SnapTickers |-> NoEntry]
    /\ dkeys = <<>>
    /\ quote_cache = [t \in SnapTickers |-> NoQuote]
    /\ lock = "free"
    /\ shm = [i \in 1 .. RegionChunks |-> ZeroChunk]
    /\ ppc = "idle"
    /\ ploc = NoPloc
    /\ clock = 1
    /\ pghost = [pre |-> 0, calls |-> 0, completed |-> 0, failed |-> 0, nWrite |-> 0,
                 sealed |-> [t \in SnapTickers |-> 0]]

\* the region holds every document of the model
PublisherInit == PublisherOn(RegionChunks)

\* stock_data.to_serializable_dict(): the record's fields, the df as rows;
\* by is the ordinal of the per-ticker write that stores it (history only)
to_serializable_dict(rec, by) ==
    [meta |-> [ticker |-> rec.ticker, by |-> by], df |-> [rows |-> rec.df, by |-> by]]

\* int(time.mktime(time.strptime(date, "%Y-%m-%d")) * 1000)
ToEpochMs(date) == date * 1000

\* faulty variant: the quote is taken from the first row
QuoteOf_first(data_dict) ==
    LET first == data_dict.df.rows[1]
    IN  [present |-> TRUE, price |-> first.Close, volume |-> first.Volume,
         ts_epoch_ms |-> ToEpochMs(first.Date)]

\* the quote write_data derives from the last row of a serialized record
QuoteOf(data_dict) ==
    LET last == data_dict.df.rows[Len(data_dict.df.rows)]
    IN  [present |-> TRUE, price |-> last.Close, volume |-> last.Volume,
         ts_epoch_ms |-> ToEpochMs(last.Date)]

\* the serialized mapping: the entries in insertion order, each as its header,
\* the scalar fields of its data and the rows of its data
RECURSIVE Serialize(_, _, _)
Serialize(d, keys, gen) ==
    IF keys = <<>> THEN <<>>
    ELSE LET t == keys[Len(keys)]
             e == d[t]
             mk(kind, by, rows) ==
                 [kind |-> kind, ticker |-> t, epoch |-> e.epoch, by |-> by,
                  rows |-> rows, shape |-> 0, gen |-> gen]
         IN  Serialize(d, SubSeq(keys, 1, Len(keys) - 1), gen)
                \o << mk("hdr", 0, <<>>),
                      mk("meta", e.data.meta.by, <<>>),
                      mk("df", e.data.df.by, e.data.df.rows) >>

\* every cell of a document carries the number of entries of its document
Document(d, keys, gen) ==
    [i \in 1 .. (EntryChunks * Len(keys)) |->
        [Serialize(d, keys, gen)[i] EXCEPT !.shape = Len(keys)]]

BatchEnterEpoch(epoch) == epoch + 1

\* with self.lock: snapshot_state["epoch"] += 1
WriteDataBegin(batch) ==
    /\ ppc = "idle"
    /\ lock = "free"
    /\ lock' = "writer"
    /\ snapshot_state' = [snapshot_state EXCEPT !.epoch = BatchEnterEpoch(@)]
    /\ ploc' = [NoPloc EXCEPT !.batch = batch, !.i = 1]
    /\ ppc' = IF batch = <<>> THEN "finish" ELSE "mark"
    /\ pghost' = [pghost EXCEPT !.pre = snapshot_state.epoch, !.calls = @ + 1]
    /\ UNCHANGED <<shared_dict, dkeys, quote_cache, shm, clock, shared_mem, segments>>

CurKey == ploc.batch[ploc.i].ticker

\* entry = shared_dict.get(key, new entry); entry epoch += 1; store it
WriteDataMark ==
    /\ ppc = "mark"
    /\ LET entry == IF shared_dict[CurKey].present THEN shared_dict[CurKey] ELSE NewEntry
       IN  /\ shared_dict' = [shared_dict EXCEPT ![CurKey] = [entry EXCEPT !.epoch = @ + 1]]
           /\ dkeys' = IF shared_dict[CurKey].present THEN dkeys ELSE Append(dkeys, CurKey)
    /\ ppc' = "store"
    /\ UNCHANGED <<snapshot_state, quote_cache, lock, shm, ploc, clock, pghost, shared_mem, segments>>

\* data_dict = to_serializable_dict(); entry data and last_update_ms replaced
WriteDataStore ==
    /\ ppc = "store"
    /\ shared_dict' = [shared_dict EXCEPT
            ![CurKey].data = to_serializable_dict(ploc.batch[ploc.i], pghost.nWrite + 1),
            ![CurKey].last_update_ms = clock]
    /\ clock' = clock + 1
    /\ pghost' = [pghost EXCEPT !.nWrite = @ + 1]
    /\ ppc' = "seal"
    /\ UNCHANGED <<snapshot_state, dkeys, quote_cache, lock, shm, ploc, shared_mem, segments>>

\* to_serializable_dict() raises: the handler prints and re-raises, the with
\* block releases the lock, nothing else is undone
WriteDataRaise ==
    /\ ppc = "store"
    /\ lock' = "free"
    /\ ppc' = "idle"
    /\ ploc' = NoPloc
    /\ pghost' = [pghost EXCEPT !.failed = @ + 1]
    /\ UNCHANGED <<snapshot_state, shared_dict, dkeys, quote_cache, shm, clock, shared_mem, segments>>

EntrySealEpoch(epoch) == epoch + 1

\* entry epoch += 1; store it
WriteDataSeal ==
    /\ ppc = "seal"
    /\ shared_dict' = [shared_dict EXCEPT ![CurKey].epoch = EntrySealEpoch(@)]
    /\ pghost' = [pghost EXCEPT !.sealed[CurKey] = @ + 1]
    /\ ppc' = "quote"
    /\ UNCHANGED <<snapshot_state, dkeys, quote_cache, lock, shm, ploc, clock, shared_mem, segments>>

\* quote cache from the last row when the record has rows; next record
WriteDataQuote ==
    /\ ppc = "quote"
    /\ quote_cache' = IF shared_dict[CurKey].data.df.rows # <<>>
                      THEN [quote_cache EXCEPT ![CurKey] = QuoteOf(shared_dict[CurKey].data)]
                      ELSE quote_cache
    /\ ploc' = [ploc EXCEPT !.i = @ + 1]
    /\ ppc' = IF ploc.i < Len(ploc.batch) THEN "mark" ELSE "finish"
    /\ UNCHANGED <<snapshot_state, shared_dict, dkeys, lock, shm, clock, pghost, shared_mem, segments>>

BatchLeaveEpoch(epoch) == epoch + 1

\* snapshot_state last_update_ms and epoch; the mapping is then serialized
WriteDataFinish ==
    /\ ppc = "finish"
    /\ snapshot_state' = [epoch |-> BatchLeaveEpoch(snapshot_state.epoch),
                          last_update_ms |-> clock]
    /\ clock' = clock + 1
    /\ ploc' = [ploc EXCEPT !.doc = Document(shared_dict, dkeys, pghost.completed + 1),
                            !.pos = 1]
    /\ ppc' = "publish"
    /\ UNCHANGED <<shared_dict, dkeys, quote_cache, lock, shm, pghost, shared_mem, segments>>

\* faulty variant: the new region is created under a name of its own
NewRegionName_fresh(name) == "psm_fresh"

\* the name the region is created under when it is reallocated
NewRegionName(name) == name

\* the serialized mapping exceeds the region: the old region is unlinked and a
\* zero-filled one, large enough, is created
Reallocate ==
    /\ ppc = "publish"
    /\ Len(ploc.doc) > shared_mem.size
    /\ \E size \in Len(ploc.doc) .. RegionChunks :
          shared_mem' = [id |-> shared_mem.id + 1, size |-> size,
                         name |-> NewRegionName(shared_mem.name)]
    /\ segments' = [n \in SegmentNames |->
                        IF n = NewRegionName(shared_mem.name) THEN shared_mem.id + 1
                        ELSE IF n = shared_mem.name THEN NoRegion
                        ELSE segments[n]]
    /\ shm' = [i \in 1 .. RegionChunks |-> ZeroChunk]
    /\ UNCHANGED <<snapshot_state, shared_dict, dkeys, quote_cache, lock, ppc, ploc,
                   clock, pghost>>

\* the serialized mapping is copied into the region, front to back
PublishChunk ==
    /\ ppc = "publish"
    /\ Len(ploc.doc) <= shared_mem.size
    /\ ploc.pos <= Len(ploc.doc)
    /\ shm' = [shm EXCEPT ![ploc.pos] = ploc.doc[ploc.pos]]
    /\ ploc' = [ploc EXCEPT !.pos = @ + 1]
    /\ UNCHANGED <<snapshot_state, shared_dict, dkeys, quote_cache, lock, ppc, clock, pghost, shared_mem, segments>>

\* the batch is complete: the lock is released
WriteDataReturn ==
    /\ ppc = "publish"
    /\ ploc.pos > Len(ploc.doc)
    /\ lock' = "free"
    /\ ppc' = "idle"
    /\ ploc' = NoPloc
    /\ pghost' = [pghost EXCEPT !.completed = @ + 1]
    /\ UNCHANGED <<snapshot_state, shared_dict, dkeys, quote_cache, shm, clock, shared_mem, segments>>

(***************************************************************************)
(* quote_server.py: NDJSONServer.handle_client                             *)
(***************************************************************************)
\* JSON values: a number, a string, an array, null, and the absence of a key
Num(n) == [k |-> "num", n |-> n, s |-> ""]
Str(s) == [k |-> "str", n |-> 0, s |-> s]
Arr == [k |-> "arr", n |-> 0, s |-> ""]
Null == [k |-> "null", n |-> 0, s |-> ""]
Absent == [k |-> "absent", n |-> 0, s |-> ""]

\* the request objects a client sends: each key absent or with one of a few
\* values; a ticker goes with get_quote
Requests ==
    {r \in [v : {Absent, Num(1), Num(2)},
            id : {Absent, Null, Str("r1")},
            type : {Absent, Str("list_tickers"), Str("get_quote"),
                    Str("get_snapshot_epoch"), Str("get_shm_name"), Str("bogus")},
            ticker : {Absent, Str("X"), Str("Z"), Arr}] :
        r.ticker # Absent => r.type = Str("get_quote")}

NoRequest == [v |-> Absent, id |-> Absent, type |-> Absent, ticker |-> Absent]

\* the request inside a line that is too long: padded, but complete
LongRequest ==
    [v |-> Num(1), id |-> Str("r1"), type |-> Str("list_tickers"), ticker |-> Absent]

\* the lines a client sends: a JSON object, JSON that is not an object, bytes
\* that are not JSON, a line longer than max_line_bytes that the stream still
\* delivers, and a line beyond the limit of the stream
Lines ==
    {[kind |-> "object", request |-> r] : r \in Requests}
        \cup {[kind |-> k, request |-> NoRequest] : k \in {"not_object", "malformed"}}
        \cup {[kind |-> k, request |-> r] :
                 k \in {"too_long", "over_limit"}, r \in {NoRequest, LongRequest}}

\* what json.loads makes of the bytes of a line
JsonOf(line) ==
    IF line.kind \in {"too_long", "over_limit"}
    THEN IF line.request = NoRequest THEN "malformed" ELSE "object"
    ELSE line.kind

NoLine == [kind |-> "", request |-> NoRequest]

\* NDJSONServer.__init__: freshness_window_ms
FreshnessWindowMs == 90000

\* int(time.time() * 1000) as the handler may read it: around the end of the
\* freshness window of a quote of day 1
NowValues == {ToEpochMs(1) + FreshnessWindowMs + d : d \in {0 - 1, 0, 1}}

\* the locals of handle_client that outlive one pass of its loop; parsed and
\* raised are history: json.loads was called on the line of this pass, a
\* handler has raised on this connection
NoLocals == [req_id |-> Null, now_ms |-> 0, parsed |-> FALSE, raised |-> FALSE,
             region |-> NoRegion]

VARIABLES
    shm_name,      \* the region name the server advertises, Null when none
    srv_pc,        \* "idle" (no connection), "wait", "line", "done", "closed"
    srv_line,      \* the line read
    srv_out,       \* the lines sent while handling it
    srv_ops,       \* the operations dispatched while handling it
    srv_loc        \* the locals of handle_client

serverVars == <<shm_name, srv_pc, srv_line, srv_out, srv_ops, srv_loc>>

\* dict.get(key): None when the key is absent; key in dict
Get(request, key) == IF request[key] = Absent THEN Null ELSE request[key]
Has(request, key) == request[key] # Absent

NoReplyData ==
    [tickers |-> {}, ticker |-> "", price |-> 0, volume |-> 0, ts_epoch_ms |-> 0,
     stale |-> FALSE, epoch |-> 0, last_update_ms |-> 0, shm_name |-> Null]

\* the message of an error: its text and, after it, the names joined to it
Message(text, names) == [text |-> text, names |-> names]

\* send_error: the error line
send_error(req_id, code, message) ==
    [type |-> "error", id |-> req_id, op |-> "", code |-> code, message |-> message,
     data |-> NoReplyData]

\* a response line
Response(req_id, op, data) ==
    [type |-> "response", id |-> req_id, op |-> op, code |-> "",
     message |-> Message("", <<>>), data |-> data]

\* faulty variant: the first missing field ends the validation
Missing_first(request) ==
    IF Get(request, "v") # Num(1) THEN <<"v">>
    ELSE IF Get(request, "id") = Null THEN <<"id">>
    ELSE IF ~Has(request, "type") THEN <<"type">>
    ELSE <<>>

\* handle_client, lines 66-73: the envelope fields found missing
Missing(request) ==
    (IF Get(request, "v") # Num(1) THEN <<"v">> ELSE <<>>)
        \o (IF Get(request, "id") = Null THEN <<"id">> ELSE <<>>)
        \o (IF ~Has(request, "type") THEN <<"type">> ELSE <<>>)

\* faulty variant: an age equal to the window is stale
IsStale_inclusive(now_ms, ts_epoch_ms) == now_ms - ts_epoch_ms >= FreshnessWindowMs

\* handle_client, line 107
IsStale(now_ms, ts_epoch_ms) == now_ms - ts_epoch_ms > FreshnessWindowMs

\* quote_cache.get(ticker) is not None
Quoted(cache, ticker) == ticker \in DOMAIN cache /\ cache[ticker].present

\* the get_quote handler: what it answers from the quote cache at now_ms;
\* ticker is "" when the request has none
get_quote(cache, req_id, ticker, now_ms) ==
    IF ticker = "" THEN send_error(req_id, "BAD_REQUEST", Message("Missing ticker", <<>>))
    ELSE IF ~Quoted(cache, ticker)
    THEN send_error(req_id, "NOT_FOUND", Message("Unknown ticker", <<ticker>>))
    ELSE Response(req_id, "get_quote",
                  [NoReplyData EXCEPT
                      !.ticker = ticker,
                      !.price = cache[ticker].price,
                      !.volume = cache[ticker].volume,
                      !.ts_epoch_ms = cache[ticker].ts_epoch_ms,
                      !.stale = IsStale(now_ms, cache[ticker].ts_epoch_ms)])

\* the handler of the request raises: quote_cache.get(ticker) with a ticker
\* that is a JSON array (an unhashable list)
Raises(request) == request.type = Str("get_quote") /\ request.ticker = Arr

\* faulty variant: the INTERNAL error goes out without the id
OnException_noid(req_id) ==
    send_error(Null, "INTERNAL", Message("unhashable type: 'list'", <<>>))

\* handle_client, lines 139-140: the INTERNAL error with str(exc)
OnException(req_id) ==
    send_error(req_id, "INTERNAL", Message("unhashable type: 'list'", <<>>))

\* handle_client, lines 86-138: the reply of the operation of a request
\* whose envelope is complete
Dispatch(request, req_id, now_ms) ==
    LET req_type == request.type
    IN  IF req_type = Str("list_tickers")
        THEN Response(req_id, "list_tickers",
                      [NoReplyData EXCEPT
                          !.tickers = {t \in SnapTickers : quote_cache[t].present}])
        ELSE IF req_type = Str("get_quote")
        THEN IF Raises(request) THEN OnException(req_id)
             ELSE get_quote(quote_cache, req_id, Get(request, "ticker").s, now_ms)
        ELSE IF req_type = Str("get_snapshot_epoch")
        THEN Response(req_id, "get_snapshot_epoch",
                      [NoReplyData EXCEPT
                          !.epoch = snapshot_state.epoch,
                          !.last_update_ms = snapshot_state.last_update_ms])
        ELSE IF req_type = Str("get_shm_name")
        THEN IF shm_name = Null
             THEN send_error(req_id, "NOT_FOUND",
                             Message("Shared memory not configured", <<>>))
             ELSE Response(req_id, "get_shm_name", [NoReplyData EXCEPT !.shm_name = shm_name])
        ELSE send_error(req_id, "BAD_REQUEST", Message("Unknown request type", <<>>))

\* the operations of the server
Operations == {"list_tickers", "get_quote", "get_snapshot_epoch", "get_shm_name"}

\* no connection
ServerIdle ==
    /\ shm_name = Str("psm_region")
    /\ srv_pc = "idle"
    /\ srv_line = NoLine
    /\ srv_out = <<>>
    /\ srv_ops = <<>>
    /\ srv_loc = NoLocals

\* a server, advertising a region or none, has accepted a connection
ServerConnected ==
    /\ shm_name \in {Null, Str("psm_region")}
    /\ srv_pc = "wait"
    /\ srv_line = NoLine
    /\ srv_out = <<>>
    /\ srv_ops = <<>>
    /\ srv_loc = NoLocals

\* handle_client is started for a new connection
ClientConnects ==
    /\ srv_pc = "closed"
    /\ srv_pc' = "wait"
    /\ srv_line' = NoLine
    /\ srv_out' = <<>>
    /\ srv_ops' = <<>>
    /\ srv_loc' = NoLocals
    /\ UNCHANGED shm_name

\* handle_client, line 46: readline returns the next line of the connection
ReadLine(line) ==
    /\ srv_pc \in {"wait", "done"}
    /\ srv_pc' = "line"
    /\ srv_line' = line
    /\ srv_out' = <<>>
    /\ srv_ops' = <<>>
    /\ srv_loc' = [srv_loc EXCEPT !.parsed = FALSE, !.region = NoRegion]
    /\ UNCHANGED shm_name

\* faulty variant: a line that is not parsed is answered with the id at hand
UnparsedId_stale(loc) == loc.req_id

\* the id of the error sent for a line that was not parsed: None
UnparsedId(loc) == Null

\* faulty variant: the over-long line is parsed like any other
RejectsUnparsed_never(kind) == FALSE

\* handle_client, lines 49-57: the lines rejected before json.loads
RejectsUnparsed(kind) == kind \in {"too_long", "over_limit"}

\* handle_client, lines 49-143: one pass of the loop over the line read
HandleLine ==
    /\ srv_pc = "line"
    /\ \E now_ms \in NowValues :
        IF RejectsUnparsed(srv_line.kind)
        THEN /\ srv_out' = <<send_error(UnparsedId(srv_loc), "BAD_REQUEST",
                                        Message("Line too long", <<>>))>>
             /\ srv_ops' = <<>>
             /\ srv_loc' = srv_loc
             /\ srv_pc' = IF srv_line.kind = "over_limit" THEN "closed" ELSE "done"
        ELSE IF JsonOf(srv_line) = "malformed"
        THEN /\ srv_out' = <<send_error(UnparsedId(srv_loc), "BAD_REQUEST",
                                        Message("Malformed JSON", <<>>))>>
             /\ srv_ops' = <<>>
             /\ srv_loc' = [srv_loc EXCEPT !.parsed = TRUE]
             /\ srv_pc' = "done"
        ELSE IF JsonOf(srv_line) = "not_object"
        THEN /\ srv_out' = <<>>
             /\ srv_ops' = <<>>
             /\ srv_loc' = [srv_loc EXCEPT !.parsed = TRUE]
             /\ srv_pc' = "closed"
        ELSE LET request == srv_line.request
                 req_id == Get(request, "id")
                 missing == Missing(request)
             IN  /\ srv_pc' = "done"
                 /\ IF missing # <<>>
                    THEN /\ srv_out' = <<send_error(req_id, "BAD_REQUEST",
                                             Message("Missing required fields", missing))>>
                         /\ srv_ops' = <<>>
                         /\ srv_loc' = [srv_loc EXCEPT !.req_id = req_id, !.parsed = TRUE]
                    ELSE /\ srv_out' = <<Dispatch(request, req_id, now_ms)>>
                         /\ srv_ops' = IF request.type.s \in Operations
                                       THEN <<request.type.s>> ELSE <<>>
                         /\ srv_loc' = [req_id |-> req_id,
                                        now_ms |-> IF request.type = Str("get_quote")
                                                      /\ ~Raises(request)
                                                      /\ Quoted(quote_cache,
                                                                Get(request, "ticker").s)
                                                   THEN now_ms ELSE srv_loc.now_ms,
                                        parsed |-> TRUE,
                                        raised |-> srv_loc.raised \/ Raises(request),
                                        region |-> IF request.type = Str("get_shm_name")
                                                   THEN shared_mem.id
                                                   ELSE srv_loc.region]
    /\ UNCHANGED <<shm_name, srv_line>>

\* some line is read
NextLineRead == \E line \in Lines : ReadLine(line)

\* faulty variant: the timeout is reported to the client
OnTimeout_error(out) ==
    Append(out, send_error(Null, "TIMEOUT", Message("Idle timeout", <<>>)))

\* handle_client, lines 47-48: what has been sent once the timeout is caught
OnTimeout(out) == out

\* handle_client, lines 47-48 and 144-147: no line for idle_timeout_s; the
\* loop is left and the connection closed
IdleTimeout ==
    /\ srv_pc \in {"wait", "done"}
    /\ srv_pc' = "closed"
    /\ srv_out' = OnTimeout(srv_out)
    /\ UNCHANGED <<shm_name, srv_line, srv_ops, srv_loc>>

\* handle_client, lines 53-54: the client has closed its side
ClientEof ==
    /\ srv_pc \in {"wait", "done"}
    /\ srv_pc' = "closed"
    /\ srv_line' = NoLine
    /\ UNCHANGED <<shm_name, srv_out, srv_ops, srv_loc>>

(***************************************************************************)
(* Snapshot reader: StockDataReader.get_stock                              *)
(***************************************************************************)
MaxRetries == 2

\* the mapping of a reader constructed with a layout instead of a region
Layout == [t \in {"X"} |-> <<1, 2, 3>>]

ReaderConfs == {"shm", "layout", "none"}

NoSargs == [conf |-> "", ticker |-> ""]
NoSloc == [attempt |-> 0, phase |-> 0, pos |-> 0, buf |-> <<>>, e1 |-> 0, payload |-> NoData]
NoSret == [kind |-> "", payload |-> NoData]
NoSghost == [loads |-> 0, e1 |-> 0, e2 |-> 0]

VARIABLES spc, sargs, sloc, sret, sghost

snapReaderVars == <<spc, sargs, sloc, sret, sghost>>

SnapReaderInit ==
    /\ spc = "idle"
    /\ sargs = NoSargs
    /\ sloc = NoSloc
    /\ sret = NoSret
    /\ sghost = NoSghost

\* get_stock with a layout: the mapping's value, KeyError without one
GetStockLayout(t) ==
    /\ spc = "idle"
    /\ sargs' = [conf |-> "layout", ticker |-> t]
    /\ sret' = IF t \in DOMAIN Layout
               THEN [kind |-> "layout", payload |-> NoData]
               ELSE [kind |-> "KeyError", payload |-> NoData]
    /\ spc' = "done"
    /\ UNCHANGED <<sloc, sghost>>

\* get_stock with neither layout nor region: ValueError
GetStockUnconfigured(t) ==
    /\ spc = "idle"
    /\ sargs' = [conf |-> "none", ticker |-> t]
    /\ sret' = [kind |-> "ValueError", payload |-> NoData]
    /\ spc' = "done"
    /\ UNCHANGED <<sloc, sghost>>

\* faulty variant: one attempt more than max_retries
HasAttempt_extra(a) == a <= MaxRetries + 1

\* for attempt in range(max_retries)
HasAttempt(a) == a <= MaxRetries

\* the state in which attempt number a begins, or the error after the last
Attempt(a) ==
    IF HasAttempt(a)
    THEN /\ sloc' = [NoSloc EXCEPT !.attempt = a, !.phase = 1, !.pos = 1]
         /\ sghost' = NoSghost
         /\ spc' = "load"
         /\ sret' = NoSret
    ELSE /\ sloc' = [NoSloc EXCEPT !.attempt = sloc.attempt]
         /\ sghost' = sghost
         /\ spc' = "done"
         /\ sret' = [kind |-> "RuntimeError", payload |-> NoData]

\* list_tickers with a layout: its keys; with neither layout nor region:
\* ValueError
ListTickersConfigured(conf) ==
    /\ spc = "idle"
    /\ conf \in {"layout", "none"}
    /\ sargs' = [conf |-> conf, ticker |-> ""]
    /\ sret' = [kind |-> IF conf = "layout" THEN "layout_keys" ELSE "ValueError",
                payload |-> NoData]
    /\ spc' = "done"
    /\ UNCHANGED <<sloc, sghost>>

\* list_tickers on a region: _load_dict copies the region
ListTickersCall ==
    /\ spc = "idle"
    /\ sargs' = [conf |-> "shm", ticker |-> ""]
    /\ sloc' = [NoSloc EXCEPT !.phase = 3, !.pos = 1]
    /\ sghost' = NoSghost
    /\ sret' = NoSret
    /\ spc' = "load"

\* close: the reader detaches from the region
StockDataReaderClose ==
    /\ spc = "idle"
    /\ spc' = "closed"
    /\ UNCHANGED <<sargs, sloc, sret, sghost>>

\* __init__: a reader attaches to the region by its name
StockDataReaderOpen ==
    /\ spc = "closed"
    /\ spc' = "idle"
    /\ UNCHANGED <<sargs, sloc, sret, sghost>>

\* get_stock on a region: the retry loop begins
GetStockCall(t) ==
    /\ spc = "idle"
    /\ sargs' = [conf |-> "shm", ticker |-> t]
    /\ Attempt(1)

\* bytes(shm.buf): the region is copied front to back, cell by cell
LoadChunk ==
    /\ spc = "load"
    /\ sloc' = [sloc EXCEPT !.buf = Append(@, shm[sloc.pos]), !.pos = @ + 1]
    /\ spc' = IF sloc.pos < RegionChunks THEN "load"
              ELSE IF sloc.phase = 1 THEN "first"
              ELSE IF sloc.phase = 2 THEN "second" ELSE "keys"
    /\ sghost' = IF sloc.pos < RegionChunks THEN sghost
                 ELSE [sghost EXCEPT !.loads = @ + 1]
    /\ UNCHANGED <<sargs, sret>>

\* rstrip(b"\x00")
RECURSIVE Strip(_)
Strip(buf) ==
    IF buf = <<>> THEN <<>>
    ELSE IF buf[Len(buf)].kind = "zero" THEN Strip(SubSeq(buf, 1, Len(buf) - 1))
    ELSE buf

\* the copy is the text of a whole mapping: no hole, and its end is the end
\* of a document of that many entries
Parsable(raw) ==
    /\ \A i \in 1 .. Len(raw) : raw[i].kind # "zero"
    /\ raw # <<>> => Len(raw) = EntryChunks * raw[Len(raw)].shape

\* the copy holds cells of more than one published document
Torn(raw) == \E i, j \in 1 .. Len(raw) : raw[i].gen # raw[j].gen

\* json.loads: a whole document decodes; a copy torn between documents
\* decodes or raises depending on how their bytes line up; else it raises
DecodeOutcomes(raw) ==
    IF ~Parsable(raw) THEN {"error"}
    ELSE IF Torn(raw) THEN {"ok", "error"}
    ELSE {"ok"}

\* data.get(ticker) of a decoded copy
EntryIndex(raw, t) ==
    IF \E i \in 1 .. Len(raw) : raw[i].kind = "hdr" /\ raw[i].ticker = t
    THEN CHOOSE i \in 1 .. Len(raw) : raw[i].kind = "hdr" /\ raw[i].ticker = t
    ELSE 0

EpochAt(raw, k) == raw[k].epoch

PayloadAt(raw, k) ==
    [meta |-> [ticker |-> raw[k + 1].ticker, by |-> raw[k + 1].by],
     df |-> [rows |-> raw[k + 2].rows, by |-> raw[k + 2].by]]

Loaded == Strip(sloc.buf)

\* the first load raised JSONDecodeError: continue
FirstDecodeError ==
    /\ spc = "first"
    /\ "error" \in DecodeOutcomes(Loaded)
    /\ Attempt(sloc.attempt + 1)
    /\ UNCHANGED sargs

\* the first load has no entry for the ticker: KeyError
FirstKeyError ==
    /\ spc = "first"
    /\ "ok" \in DecodeOutcomes(Loaded)
    /\ EntryIndex(Loaded, sargs.ticker) = 0
    /\ sret' = [kind |-> "KeyError", payload |-> NoData]
    /\ sloc' = [NoSloc EXCEPT !.attempt = sloc.attempt]
    /\ spc' = "done"
    /\ UNCHANGED <<sargs, sghost>>

\* e1 is odd: continue
FirstOdd ==
    /\ spc = "first"
    /\ "ok" \in DecodeOutcomes(Loaded)
    /\ EntryIndex(Loaded, sargs.ticker) # 0
    /\ EpochAt(Loaded, EntryIndex(Loaded, sargs.ticker)) % 2 = 1
    /\ Attempt(sloc.attempt + 1)
    /\ UNCHANGED sargs

\* e1 is even: the payload is taken and the region is loaded again
FirstEven ==
    /\ spc = "first"
    /\ "ok" \in DecodeOutcomes(Loaded)
    /\ EntryIndex(Loaded, sargs.ticker) # 0
    /\ EpochAt(Loaded, EntryIndex(Loaded, sargs.ticker)) % 2 = 0
    /\ sloc' = [sloc EXCEPT !.phase = 2, !.pos = 1, !.buf = <<>>,
                    !.e1 = EpochAt(Loaded, EntryIndex(Loaded, sargs.ticker)),
                    !.payload = PayloadAt(Loaded, EntryIndex(Loaded, sargs.ticker))]
    /\ spc' = "load"
    /\ UNCHANGED <<sargs, sret, sghost>>

\* the second load raised JSONDecodeError: continue
SecondDecodeError ==
    /\ spc = "second"
    /\ "error" \in DecodeOutcomes(Loaded)
    /\ Attempt(sloc.attempt + 1)
    /\ UNCHANGED sargs

\* e1 == e2 and e2 is not None and e2 % 2 == 0
IsStable(e1, found, e2) == found /\ e1 = e2 /\ e2 % 2 = 0

\* the second load decoded and the epoch is the same even one: return payload
SecondStable ==
    /\ spc = "second"
    /\ "ok" \in DecodeOutcomes(Loaded)
    /\ LET k == EntryIndex(Loaded, sargs.ticker)
       IN  IsStable(sloc.e1, k # 0, IF k = 0 THEN 0 ELSE EpochAt(Loaded, k))
    /\ sret' = [kind |-> "payload", payload |-> sloc.payload]
    /\ sloc' = [NoSloc EXCEPT !.attempt = sloc.attempt]
    /\ sghost' = [sghost EXCEPT !.e1 = sloc.e1,
                                 !.e2 = EpochAt(Loaded, EntryIndex(Loaded, sargs.ticker))]
    /\ spc' = "done"
    /\ UNCHANGED sargs

\* the second load decoded and the epoch differs: next attempt
SecondChanged ==
    /\ spc = "second"
    /\ "ok" \in DecodeOutcomes(Loaded)
    /\ LET k == EntryIndex(Loaded, sargs.ticker)
       IN  ~IsStable(sloc.e1, k # 0, IF k = 0 THEN 0 ELSE EpochAt(Loaded, k))
    /\ Attempt(sloc.attempt + 1)
    /\ UNCHANGED sargs

\* the keys of a decoded copy
Keys(raw) == {raw[i].ticker : i \in {j \in 1 .. Len(raw) : raw[j].kind = "hdr"}}

\* list_tickers: the keys of the copy, or the JSONDecodeError of json.loads,
\* which list_tickers does not catch
ListTickersReturn ==
    /\ spc = "keys"
    /\ \E outcome \in DecodeOutcomes(Loaded) :
          sret' = [kind |-> IF outcome = "ok" THEN "keys" ELSE "JSONDecodeError",
                   payload |-> NoData]
    /\ spc' = "done"
    /\ UNCHANGED <<sargs, sloc, sghost>>

\* the caller has the result; the reader is ready for the next call
GetStockReturn ==
    /\ spc = "done"
    /\ spc' = "idle"
    /\ sargs' = NoSargs
    /\ sloc' = NoSloc
    /\ sret' = NoSret
    /\ sghost' = NoSghost


(***************************************************************************)
(* Control-plane server: arbitration of the IBKR connection                *)
(***************************************************************************)
Conns == {1, 2}
NoOwner == 0

\* requests and connection-loss signals in one behaviour
MaxEvents == 4

VARIABLES ibkr_state, ibkr_owner, is_downloading, instr, carried, conns, replies

ibkrVars == <<ibkr_state, ibkr_owner, is_downloading, instr, carried, conns, replies>>

IbkrInit ==
    /\ ibkr_state = "FREE"
    /\ ibkr_owner = NoOwner
    /\ is_downloading = FALSE
    /\ instr = <<>>
    /\ carried = 0
    /\ conns = {}
    /\ replies = <<>>

\* the reason or message that goes with a status
TextOf(status) ==
    IF status = "denied" THEN "wait until stock download is finished"
    ELSE IF status = "BAD_REQUEST" THEN "no acquired connection to release"
    ELSE ""

\* a line the server writes to connection c
Line(c, op, kind, status) ==
    [conn |-> c, op |-> op, kind |-> kind, status |-> status, text |-> TextOf(status)]

\* a client opens a connection
ClientConnect(c) ==
    /\ c \notin conns
    /\ conns' = conns \cup {c}
    /\ UNCHANGED <<ibkr_state, ibkr_owner, is_downloading, instr, carried, replies>>

\* faulty variant: the resource is given back when the connection that
\* acquired it closes
AfterClose_owner(state, owner, c) ==
    IF owner = c THEN <<"FREE", NoOwner>> ELSE <<state, owner>>

\* state and owner once connection c has closed: ownership is not the
\* connection's
AfterClose(state, owner, c) == <<state, owner>>

\* a client closes its connection
ClientClose(c) ==
    /\ c \in conns
    /\ conns' = conns \ {c}
    /\ ibkr_state' = AfterClose(ibkr_state, ibkr_owner, c)[1]
    /\ ibkr_owner' = AfterClose(ibkr_state, ibkr_owner, c)[2]
    /\ UNCHANGED <<is_downloading, instr, carried, replies>>

\* faulty variant: the resource is granted again while HELD
AcquireOutcome_regrant(state, downloading) ==
    IF downloading THEN "denied" ELSE "acquired"

\* faulty variant: a free resource is never granted
AcquireOutcome_refuse(state, downloading) ==
    IF state = "HELD" THEN "CONFLICT" ELSE "denied"

\* faulty variant: a download in progress is not looked at
AcquireOutcome_nowait(state, downloading) ==
    IF state = "HELD" THEN "CONFLICT" ELSE "acquired"

\* what an acquire_ibkr request is answered with
AcquireOutcome(state, downloading) ==
    IF state = "HELD" THEN "CONFLICT"
    ELSE IF downloading THEN "denied"
    ELSE "acquired"

\* the instructions the collaborator has been given and has not carried out
Pending == Len(instr) - carried

\* faulty variant: the handler calls the collaborator inline, so the event
\* loop takes no step until the collaborator has returned
ServerRuns_inline(pending) == pending = 0

\* whether the event loop can run a handler: an instruction is handed to the
\* collaborator and not waited for
ServerRuns(pending) == TRUE

\* acquire_ibkr on connection c
AcquireIbkr(c) ==
    /\ c \in conns
    /\ ServerRuns(Pending)
    /\ LET outcome == AcquireOutcome(ibkr_state, is_downloading)
       IN  IF outcome = "acquired"
           THEN /\ instr' = Append(instr, "disconnect_from_ibkr_tws")
                /\ ibkr_state' = "HELD"
                /\ ibkr_owner' = c
                /\ replies' = Append(replies, Line(c, "acquire_ibkr", "response", "acquired"))
           ELSE /\ replies' = Append(replies,
                        Line(c, "acquire_ibkr",
                             IF outcome = "CONFLICT" THEN "error" ELSE "response", outcome))
                /\ UNCHANGED <<ibkr_state, ibkr_owner, instr>>
    /\ UNCHANGED <<is_downloading, carried, conns>>

\* faulty variant: a release is never accepted
ReleaseOutcome_refuse(state) == "BAD_REQUEST"

\* faulty variant: a release is accepted in every state
ReleaseOutcome_always(state) == "released"

\* what a release_ibkr request is answered with
ReleaseOutcome(state) == IF state = "HELD" THEN "released" ELSE "BAD_REQUEST"

\* release_ibkr on connection c
ReleaseIbkr(c) ==
    /\ c \in conns
    /\ ServerRuns(Pending)
    /\ IF ReleaseOutcome(ibkr_state) = "released"
       THEN /\ instr' = Append(instr, "connect_to_ibkr_tws")
            /\ ibkr_state' = "FREE"
            /\ ibkr_owner' = NoOwner
            /\ replies' = Append(replies, Line(c, "release_ibkr", "response", "released"))
       ELSE /\ replies' = Append(replies, Line(c, "release_ibkr", "error", "BAD_REQUEST"))
            /\ UNCHANGED <<ibkr_state, ibkr_owner, instr>>
    /\ UNCHANGED <<is_downloading, carried, conns>>

\* faulty variant: the push itself gives the resource back
AfterPush_free(state, owner) == <<"FREE", NoOwner>>

\* state and owner once release_requested has been pushed: the push asks the
\* client to release, the resource stays with it until it does
AfterPush(state, owner) == <<state, owner>>

\* the collaborator signals the loss of the IBKR connection: the owner's
\* connection, when open, is sent release_requested
OnIbkrConnectionFailed ==
    /\ IF ibkr_state = "HELD" /\ ibkr_owner \in conns
       THEN /\ replies' = Append(replies,
                                 Line(ibkr_owner, "release_ibkr", "push", "release_requested"))
            /\ ibkr_state' = AfterPush(ibkr_state, ibkr_owner)[1]
            /\ ibkr_owner' = AfterPush(ibkr_state, ibkr_owner)[2]
       ELSE UNCHANGED <<replies, ibkr_state, ibkr_owner>>
    /\ UNCHANGED <<is_downloading, instr, carried, conns>>

\* the collaborator carries out the oldest instruction it has been given:
\* StockDataManager.disconnect_from_ibkr_tws or connect_to_ibkr_tws returns
CollaboratorReturns ==
    /\ Pending > 0
    /\ carried' = carried + 1
    /\ UNCHANGED <<ibkr_state, ibkr_owner, is_downloading, instr, conns, replies>>

\* notify_listeners_on_download_started
DownloadStarted ==
    /\ ~is_downloading
    /\ is_downloading' = TRUE
    /\ UNCHANGED <<ibkr_state, ibkr_owner, instr, carried, conns, replies>>

\* notify_listeners_on_download_finished
DownloadFinished ==
    /\ is_downloading
    /\ is_downloading' = FALSE
    /\ UNCHANGED <<ibkr_state, ibkr_owner, instr, carried, conns, replies>>

(***************************************************************************)
(* Control-plane server: get_fundamentals over FundamentalsCache           *)
(***************************************************************************)
\* seconds a cached entry is served
TtlSeconds == 1

\* seconds of one behaviour, versions of the collaborator's fundamentals,
\* get_fundamentals requests
MaxFundTime == 3
MaxFundVersion == 2
MaxFundRequests == 3

\* FundamentalsCache.get returns None
NoDto == 0

VARIABLES
    fund_store,     \* FundamentalsCache._store for the one symbol
    fund_now,       \* time.time()
    fund_source,    \* the version the collaborator would fetch now
    fund_refresh,   \* the background refresh: "idle" or "running"
    fund_out,       \* the get_fundamentals replies sent
    fund_last,      \* history: the last set call, its value and its time
    fund_seen       \* history: the last get and the last is_expired call

fundVars == <<fund_store, fund_now, fund_source, fund_refresh, fund_out, fund_last, fund_seen>>

NoSet == [set |-> FALSE, dto |-> NoDto, at |-> 0]
NoCacheCall == [called |-> FALSE, value |-> NoDto, at |-> 0, last |-> NoSet]

FundInit ==
    /\ fund_store = [present |-> FALSE, dto |-> NoDto, ts |-> 0]
    /\ fund_now = 0
    /\ fund_source = 1
    /\ fund_refresh = "idle"
    /\ fund_out = <<>>
    /\ fund_last = NoSet
    /\ fund_seen = [get |-> NoCacheCall, is_expired |-> NoCacheCall]

\* FundamentalsCache.get
FundamentalsCache_get(store, now) ==
    IF ~store.present THEN NoDto
    ELSE IF now - store.ts > TtlSeconds THEN NoDto
    ELSE store.dto

\* FundamentalsCache.set
FundamentalsCache_set(dto, now) == [present |-> TRUE, dto |-> dto, ts |-> now]

\* faulty variant: an entry is expired at the age of ttl_seconds already
FundamentalsCache_is_expired_early(store, now) ==
    IF ~store.present THEN TRUE
    ELSE now - store.ts >= TtlSeconds

\* FundamentalsCache.is_expired
FundamentalsCache_is_expired(store, now) ==
    IF ~store.present THEN TRUE
    ELSE now - store.ts > TtlSeconds

\* a call of cache.set(symbol, dto)
CacheSet(dto) ==
    /\ fund_store' = FundamentalsCache_set(dto, fund_now)
    /\ fund_last' = [set |-> TRUE, dto |-> dto, at |-> fund_now]
    /\ UNCHANGED <<fund_now, fund_source, fund_refresh, fund_out, fund_seen>>

\* a call of cache.get(symbol)
CacheGet ==
    /\ fund_seen' = [fund_seen EXCEPT !.get =
                        [called |-> TRUE,
                         value |-> FundamentalsCache_get(fund_store, fund_now),
                         at |-> fund_now, last |-> fund_last]]
    /\ UNCHANGED <<fund_store, fund_now, fund_source, fund_refresh, fund_out, fund_last>>

\* a call of cache.is_expired(symbol)
CacheIsExpired ==
    /\ fund_seen' = [fund_seen EXCEPT !.is_expired =
                        [called |-> TRUE,
                         value |-> FundamentalsCache_is_expired(fund_store, fund_now),
                         at |-> fund_now, last |-> fund_last]]
    /\ UNCHANGED <<fund_store, fund_now, fund_source, fund_refresh, fund_out, fund_last>>

\* faulty variant: a fresh request is answered with the refreshed value
AnswerOf_waits(cached, refreshed, fresh) == IF fresh THEN refreshed ELSE cached

\* what get_fundamentals answers with
AnswerOf(cached, refreshed, fresh) == cached

\* get_fundamentals, with or without the fresh flag
GetFundamentals(fresh) ==
    /\ fund_out' = Append(fund_out,
            [value |-> AnswerOf(FundamentalsCache_get(fund_store, fund_now),
                                fund_source, fresh),
             fresh |-> fresh])
    /\ fund_refresh' = IF fresh THEN "running" ELSE fund_refresh
    /\ UNCHANGED <<fund_store, fund_now, fund_source, fund_last, fund_seen>>

\* the background refresh stores what the collaborator fetched
RefreshCompletes ==
    /\ fund_refresh = "running"
    /\ fund_store' = FundamentalsCache_set(fund_source, fund_now)
    /\ fund_refresh' = "idle"
    /\ fund_last' = [set |-> TRUE, dto |-> fund_source, at |-> fund_now]
    /\ UNCHANGED <<fund_now, fund_source, fund_out, fund_seen>>

\* the collaborator's fundamentals change
SourceChanges ==
    /\ fund_source < MaxFundVersion
    /\ fund_source' = fund_source + 1
    /\ UNCHANGED <<fund_store, fund_now, fund_refresh, fund_out, fund_last, fund_seen>>

\* a second passes
FundTick ==
    /\ fund_now < MaxFundTime
    /\ fund_now' = fund_now + 1
    /\ UNCHANGED <<fund_store, fund_source, fund_refresh, fund_out, fund_last, fund_seen>>

(***************************************************************************)
(* columnar_layout.py and columnar_writer.py on the bytes of the region    *)
(***************************************************************************)
HEADER_SIZE == 28

\* faulty variant: the volume column is counted with 4 bytes per element
compute_layout_short(base_off, capacity) ==
    LET ts_off == base_off + HEADER_SIZE
        o_off == ts_off + 8 * capacity
        h_off == o_off + 4 * capacity
        l_off == h_off + 4 * capacity
        c_off == l_off + 4 * capacity
        v_off == c_off + 4 * capacity
    IN  [offset |-> base_off, capacity |-> capacity, ts_off |-> ts_off, o_off |-> o_off,
         h_off |-> h_off, l_off |-> l_off, c_off |-> c_off, v_off |-> v_off,
         end |-> v_off + 4 * capacity]

compute_layout(base_off, capacity) ==
    LET ts_off == base_off + HEADER_SIZE
        o_off == ts_off + 8 * capacity
        h_off == o_off + 4 * capacity
        l_off == h_off + 4 * capacity
        c_off == l_off + 4 * capacity
        v_off == c_off + 4 * capacity
    IN  [offset |-> base_off, capacity |-> capacity, ts_off |-> ts_off, o_off |-> o_off,
         h_off |-> h_off, l_off |-> l_off, c_off |-> c_off, v_off |-> v_off,
         end |-> v_off + 8 * capacity]

\* the two tickers of the index, the bytes left free between them in one of
\* the indexes, the appends on each
LayTickers == {"A", "B"}
LayGap == 4
MaxLayAppends == 3

\* the bytes of the region: two tickers of Capacity rows and the gap
BufSize == 2 * (HEADER_SIZE + 32 * Capacity) + LayGap

\* little-endian bytes of a value below 2^16, and the value of such bytes
Pack(v, w) ==
    [i \in 1 .. w |-> IF i = 1 THEN v % 256 ELSE IF i = 2 THEN (v \div 256) % 256 ELSE 0]
Unpack(bytes) == bytes[1] + 256 * bytes[2]

\* buf[off : off + w]
BytesAt(b, off, w) == [i \in 1 .. w |-> b[off + i - 1]]

\* buf[off : off + w] = bytes
Store(b, off, bytes) ==
    [a \in DOMAIN b |-> IF a >= off /\ a < off + Len(bytes) THEN bytes[a - off + 1] ELSE b[a]]

\* read_header on the bytes: HEADER_STRUCT.unpack, "<QQQI"
HEADER_STRUCT_unpack(b, tl) ==
    [write_idx |-> Unpack(BytesAt(b, tl.offset, 8)),
     capacity |-> Unpack(BytesAt(b, tl.offset + 8, 8)),
     last_ts |-> Unpack(BytesAt(b, tl.offset + 16, 8)),
     seqlock |-> Unpack(BytesAt(b, tl.offset + 24, 4))]

\* write_header on the bytes: HEADER_STRUCT.pack, "<QQQI"
HEADER_STRUCT_pack(b, tl, write_idx, capacity, last_ts, seqlock) ==
    Store(b, tl.offset,
          Pack(write_idx, 8) \o Pack(capacity, 8) \o Pack(last_ts, 8) \o Pack(seqlock, 4))

\* column_views: where each column starts and the bytes of one element
ColumnOff(tl) ==
    [ts |-> tl.ts_off, o |-> tl.o_off, h |-> tl.h_off, l |-> tl.l_off, c |-> tl.c_off,
     v |-> tl.v_off]
ItemSize == [ts |-> 8, o |-> 4, h |-> 4, l |-> 4, c |-> 4, v |-> 8]
LayCols == {"ts", "o", "h", "l", "c", "v"}

\* column_views(buf, tl): the six columns as arrays of tl.capacity elements
column_views(b, tl) ==
    [cn \in LayCols |->
        [i \in 0 .. (tl.capacity - 1) |->
            Unpack(BytesAt(b, ColumnOff(tl)[cn] + ItemSize[cn] * i, ItemSize[cn]))]]

\* cn[wi] = value through the view of column cn
StoreItem(b, tl, cn, wi, value) ==
    Store(b, ColumnOff(tl)[cn] + ItemSize[cn] * wi, Pack(value, ItemSize[cn]))

VARIABLES
    lay_index,  \* the index the writer was constructed with: ticker -> offset
    lay_buf,    \* shm.buf
    lay_pc,     \* per ticker: where its append is
    lay_loc,    \* per ticker: wi, cap, seqlock and the row of its append
    lay_hist    \* per ticker: the rows appended (history only)

layVars == <<lay_index, lay_buf, lay_pc, lay_loc, lay_hist>>

\* self.layouts[ticker]
LayoutOf(t) == compute_layout(lay_index[t], Capacity)

NoLayLoc == [wi |-> 0, cap |-> 0, seqlock |-> 0, row |-> 0]

\* ColumnarWriter.__init__ over an index that puts ticker B at offset base
LayoutOn(base) ==
    /\ lay_index = [t \in LayTickers |-> IF t = "A" THEN 0 ELSE base]
    /\ lay_buf =
          LET zero == [a \in 0 .. (BufSize - 1) |-> 0]
              tlA == compute_layout(0, Capacity)
              tlB == compute_layout(base, Capacity)
          IN  HEADER_STRUCT_pack(HEADER_STRUCT_pack(zero, tlA, 0, Capacity, 0, 0),
                                 tlB, 0, Capacity, 0, 0)
    /\ lay_pc = [t \in LayTickers |-> "idle"]
    /\ lay_loc = [t \in LayTickers |-> NoLayLoc]
    /\ lay_hist = [t \in LayTickers |-> <<>>]

\* ticker B right behind ticker A
LayoutIdle == LayoutOn(compute_layout(0, Capacity).end)

\* the value appended by the k-th append on ticker t, in every column
LayValue(t, k) == IF t = "A" THEN k ELSE 10 + k

\* append, lines 42-47: the header is read and written with seqlock + 1
LayAppendBegin(t) ==
    /\ lay_pc[t] = "idle"
    /\ LET header == HEADER_STRUCT_unpack(lay_buf, LayoutOf(t))
           seqlock == header.seqlock + 1
       IN  /\ lay_buf' = HEADER_STRUCT_pack(lay_buf, LayoutOf(t), header.write_idx,
                                            header.capacity, header.last_ts, seqlock)
           /\ lay_loc' = [lay_loc EXCEPT ![t] =
                             [wi |-> header.write_idx, cap |-> header.capacity,
                              seqlock |-> seqlock,
                              row |-> LayValue(t, Len(lay_hist[t]) + 1)]]
    /\ lay_pc' = [lay_pc EXCEPT ![t] = "cols"]
    /\ UNCHANGED <<lay_index, lay_hist>>

\* append, lines 49-55: the six column stores at wi
LayAppendCols(t) ==
    /\ lay_pc[t] = "cols"
    /\ LET tl == LayoutOf(t)
           wi == lay_loc[t].wi
           row == lay_loc[t].row
           s1 == StoreItem(lay_buf, tl, "ts", wi, row)
           s2 == StoreItem(s1, tl, "o", wi, row)
           s3 == StoreItem(s2, tl, "h", wi, row)
           s4 == StoreItem(s3, tl, "l", wi, row)
           s5 == StoreItem(s4, tl, "c", wi, row)
       IN  lay_buf' = StoreItem(s5, tl, "v", wi, row)
    /\ lay_pc' = [lay_pc EXCEPT ![t] = "end"]
    /\ UNCHANGED <<lay_index, lay_loc, lay_hist>>

\* append, lines 57-60: the header with the advanced write_idx, last_ts = ts
\* and seqlock + 1
LayAppendEnd(t) ==
    /\ lay_pc[t] = "end"
    /\ lay_buf' = HEADER_STRUCT_pack(lay_buf, LayoutOf(t),
                                     (lay_loc[t].wi + 1) % lay_loc[t].cap, lay_loc[t].cap,
                                     lay_loc[t].row, lay_loc[t].seqlock + 1)
    /\ lay_hist' = [lay_hist EXCEPT ![t] = Append(@, lay_loc[t].row)]
    /\ lay_loc' = [lay_loc EXCEPT ![t] = NoLayLoc]
    /\ lay_pc' = [lay_pc EXCEPT ![t] = "idle"]
    /\ UNCHANGED lay_index

(***************************************************************************)
(* StockDataManager.start_downloader_agent: reconciliation and download    *)
(***************************************************************************)
VARIABLES
    dl_pc,            \* position of the thread running start_downloader_agent
    ibkr_connected,   \* ibkr_client.isConnected()
    dl_raised         \* history: the step of the thread that raised, "" if none

dlVars == <<dl_pc, ibkr_connected, dl_raised>>

\* start_downloader_agent has not been called
DownloaderIdle ==
    /\ dl_pc = "idle"
    /\ ibkr_connected = FALSE
    /\ dl_raised = ""

\* start_downloader_agent is called, with or without an offline cache loaded
\* and with or without a live connection
DownloaderStarts ==
    /\ dl_pc \in {"reconcile", "agent"}
    /\ ibkr_connected \in BOOLEAN
    /\ dl_raised = ""

\* reconcile_offline_cache, lines 370-375: with no live connection,
\* connect_to_ibkr_tws is tried (ok: it succeeds); without one the method
\* returns and downloader_agent follows
ReconcileConnects(ok) ==
    /\ dl_pc = "reconcile"
    /\ ibkr_connected' = (ibkr_connected \/ ok)
    /\ dl_pc' = IF ibkr_connected \/ ok THEN "reconcile_started" ELSE "agent"
    /\ UNCHANGED <<dl_raised, ibkrVars>>

\* reconcile_offline_cache, line 377
ReconcileStarted ==
    /\ dl_pc = "reconcile_started"
    /\ DownloadStarted
    /\ dl_pc' = "fetch"
    /\ UNCHANGED <<ibkr_connected, dl_raised>>

\* reconcile_offline_cache, lines 378-403: the fetch and merge return or
\* raise; the finally clause notifies either way, and start_downloader_agent
\* (lines 147-153) logs the exception and goes on to downloader_agent
ReconcileFinished(raises) ==
    /\ dl_pc = "fetch"
    /\ DownloadFinished
    /\ dl_pc' = "agent"
    /\ dl_raised' = IF raises THEN "reconcile" ELSE dl_raised
    /\ UNCHANGED ibkr_connected

\* downloader_agent, lines 172-182: with no live connection,
\* connect_to_ibkr_tws is tried; without one the cycle is skipped
AgentConnects(ok) ==
    /\ dl_pc = "agent"
    /\ ibkr_connected' = (ibkr_connected \/ ok)
    /\ dl_pc' = IF ibkr_connected \/ ok THEN "agent_started" ELSE "agent"
    /\ UNCHANGED <<dl_raised, ibkrVars>>

\* downloader_agent, line 185
AgentStarted ==
    /\ dl_pc = "agent_started"
    /\ DownloadStarted
    /\ dl_pc' = "download"
    /\ UNCHANGED <<ibkr_connected, dl_raised>>

\* download_stock_data, lines 202-203: the client must be connected
ClientChecked(connected) == connected

\* downloader_agent, lines 186-191: download_stock_data returns (failures of
\* single symbols are caught inside it), the listeners are notified and the
\* agent stops
DownloadReturns ==
    /\ dl_pc = "download"
    /\ ClientChecked(ibkr_connected)
    /\ DownloadFinished
    /\ dl_pc' = "stopped"
    /\ UNCHANGED <<ibkr_connected, dl_raised>>

\* downloader_agent, lines 186-189 with download_stock_data, lines 202-203:
\* ValueError("IBKR client not connected") leaves downloader_agent, which has
\* no try block; line 190 is not reached
DownloadRaises ==
    /\ dl_pc = "download"
    /\ ~ClientChecked(ibkr_connected)
    /\ dl_pc' = "failed"
    /\ dl_raised' = "download"
    /\ UNCHANGED <<ibkr_connected, ibkrVars>>

\* the collaborator carries out an instruction of the server:
\* disconnect_from_ibkr_tws closes the connection, connect_to_ibkr_tws opens
\* it when TWS accepts (ok)
CollaboratorActs(ok) ==
    /\ CollaboratorReturns
    /\ ibkr_connected' = IF instr[carried + 1] = "disconnect_from_ibkr_tws"
                         THEN FALSE ELSE (ibkr_connected \/ ok)
    /\ UNCHANGED <<dl_pc, dl_raised>>

\* a step of the thread that runs start_downloader_agent
DownloaderStep ==
    \/ \E ok \in BOOLEAN : ReconcileConnects(ok)
    \/ ReconcileStarted
    \/ \E raises \in BOOLEAN : ReconcileFinished(raises)
    \/ \E ok \in BOOLEAN : AgentConnects(ok)
    \/ AgentStarted
    \/ DownloadReturns
    \/ DownloadRaises

(***************************************************************************)
(* Specifications                                                          *)
(***************************************************************************)
ringVars == <<colVars, wVars, rVars>>

snapVars == <<pubVars, snapReaderVars>>

vars == <<ringVars, snapVars, ibkrVars, sliceVars, serverVars, fundVars, layVars, dlVars>>

Init ==
    /\ WriterInit /\ ReaderInit /\ PublisherInit /\ SnapReaderInit /\ IbkrInit
    /\ SliceIdle /\ ServerIdle /\ FundInit /\ DownloaderIdle /\ LayoutIdle

\* a writer step ends the quiet of the read in progress (history only)
Disturb ==
    /\ rghost' = [rghost EXCEPT !.quiet = FALSE]
    /\ UNCHANGED <<rpc, rargs, rhdr, rwin, rcols, rmask, rout>>

\* what a step of the ring writer, and of the ring reader, leaves alone
WFrame == Disturb /\ UNCHANGED <<snapVars, ibkrVars, sliceVars, serverVars, fundVars, layVars, dlVars>>
\* faulty variant: the reader marks the header of the ticker it reads
ReaderLeaves_marks ==
    /\ hdr' = [t \in DOMAIN hdr |-> [hdr[t] EXCEPT !.seqlock = @ + 1]]
    /\ UNCHANGED <<col, wVars>>

\* what every ColumnarReader operation does to the region and the writer:
\* no store into self.buf, no lock
ReaderLeaves == UNCHANGED <<colVars, wVars>>

RFrame == ReaderLeaves /\ UNCHANGED <<snapVars, ibkrVars, sliceVars, serverVars, fundVars, layVars, dlVars>>

\* the ring buffer with the writer and the reader interleaved at will
Next ==
    \/ \E t \in Tickers, bar \in Bars :
          nApp < MaxRacing /\ AppendBegin(t, bar.ts, bar.px) /\ WFrame
    \/ AppendStore /\ WFrame
    \/ AppendEnd /\ WFrame
    \/ \E t \in Tickers, n \in NValues : ViewLastNCall(t, n) /\ RFrame
    \/ \E t \in Tickers, th \in ThresholdValues : ViewSinceCall(t, th) /\ RFrame
    \/ ViewSinceHeader /\ RFrame
    \/ ReadColsHeader /\ RFrame
    \/ ReadColsHeader2 /\ RFrame
    \/ ReadColsRetry /\ RFrame
    \/ ViewLastNSlice /\ RFrame
    \/ ViewSinceMask /\ RFrame
    \/ ViewSincePick /\ RFrame
    \/ ReaderReturn /\ RFrame

Spec == Init /\ [][Next]_vars

\* the writer runs only between reader calls, the reader only between appends
NextQuiet ==
    \/ \E t \in Tickers, bar \in Bars :
          rpc = "idle" /\ nApp < MaxAppends /\ AppendBegin(t, bar.ts, bar.px) /\ WFrame
    \/ rpc = "idle" /\ AppendStore /\ WFrame
    \/ rpc = "idle" /\ AppendEnd /\ WFrame
    \/ \E t \in Tickers, n \in NValues : wpc = "idle" /\ ViewLastNCall(t, n) /\ RFrame
    \/ \E t \in Tickers, th \in ThresholdValues :
          wpc = "idle" /\ ViewSinceCall(t, th) /\ RFrame
    \/ wpc = "idle" /\ ViewSinceHeader /\ RFrame
    \/ wpc = "idle" /\ ReadColsHeader /\ RFrame
    \/ wpc = "idle" /\ ReadColsHeader2 /\ RFrame
    \/ wpc = "idle" /\ ViewLastNSlice /\ RFrame
    \/ wpc = "idle" /\ ViewSinceMask /\ RFrame
    \/ wpc = "idle" /\ ViewSincePick /\ RFrame
    \/ wpc = "idle" /\ ReaderReturn /\ RFrame

SpecQuiet == Init /\ [][NextQuiet]_vars

\* what a step of the publisher, and of the snapshot reader, leaves alone
PFrame == UNCHANGED <<ringVars, snapReaderVars, ibkrVars, sliceVars, serverVars, fundVars, layVars, dlVars>>
\* what every StockDataReader operation does to the region, the lock and the
\* publisher: nothing
SnapReaderLeaves == UNCHANGED pubVars

SFrame == SnapReaderLeaves /\ UNCHANGED <<ringVars, ibkrVars, sliceVars, serverVars, fundVars, layVars, dlVars>>

\* the publisher alone, over every batch
NextPub ==
    \/ \E batch \in Batches : pghost.calls < MaxBatches /\ WriteDataBegin(batch) /\ PFrame
    \/ WriteDataMark /\ PFrame
    \/ WriteDataStore /\ PFrame
    \/ WriteDataRaise /\ PFrame
    \/ WriteDataSeal /\ PFrame
    \/ WriteDataQuote /\ PFrame
    \/ WriteDataFinish /\ PFrame
    \/ PublishChunk /\ PFrame
    \/ WriteDataReturn /\ PFrame

SpecPub == Init /\ [][NextPub]_vars

\* the batches published while a reader is at work: one record of one row
MaxShmBatches == 2
ShmBatches == {<<[ticker |-> t, df |-> <<Row(1)>>]>> : t \in SnapTickers}
LiveBatches == {<<[ticker |-> "X", df |-> <<Row(1)>>]>>}

\* a step of get_stock
GetStockStep ==
    \/ \E t \in SnapTickers : GetStockLayout(t) \/ GetStockUnconfigured(t) \/ GetStockCall(t)
    \/ LoadChunk
    \/ FirstDecodeError
    \/ FirstKeyError
    \/ FirstOdd
    \/ FirstEven
    \/ SecondDecodeError
    \/ SecondStable
    \/ SecondChanged
    \/ GetStockReturn

\* the publisher, given the batches it may be handed, and a reader of its
\* region, interleaved at will
ShmNext(batches) ==
    \/ \E batch \in batches :
          pghost.calls < MaxShmBatches /\ WriteDataBegin(batch) /\ PFrame
    \/ WriteDataMark /\ PFrame
    \/ WriteDataStore /\ PFrame
    \/ WriteDataRaise /\ PFrame
    \/ WriteDataSeal /\ PFrame
    \/ WriteDataQuote /\ PFrame
    \/ WriteDataFinish /\ PFrame
    \/ PublishChunk /\ PFrame
    \/ WriteDataReturn /\ PFrame
    \/ \E t \in SnapTickers : GetStockLayout(t) /\ SFrame
    \/ \E t \in SnapTickers : GetStockUnconfigured(t) /\ SFrame
    \/ \E t \in SnapTickers : GetStockCall(t) /\ SFrame
    \/ LoadChunk /\ SFrame
    \/ FirstDecodeError /\ SFrame
    \/ FirstKeyError /\ SFrame
    \/ FirstOdd /\ SFrame
    \/ FirstEven /\ SFrame
    \/ SecondDecodeError /\ SFrame
    \/ SecondStable /\ SFrame
    \/ SecondChanged /\ SFrame
    \/ GetStockReturn /\ SFrame

NextShm == ShmNext(ShmBatches)

SpecShm == Init /\ [][NextShm]_vars

\* every reader operation next to its writer: in one behaviour either the
\* columnar pair or the snapshot pair runs (the two share nothing)
RingAtRest == WriterInit /\ ReaderInit
SnapAtRest == PublisherInit /\ SnapReaderInit

\* append calls and write_data batches next to the readers
MaxReadAppends == 1
MaxReadBatches == 2

NextReaders ==
    \/ \E t \in Tickers, bar \in Bars :
          SnapAtRest /\ nApp < MaxReadAppends /\ AppendBegin(t, bar.ts, bar.px) /\ WFrame
    \/ AppendStore /\ WFrame
    \/ AppendEnd /\ WFrame
    \/ \E t \in Tickers, n \in NValues : SnapAtRest /\ ViewLastNCall(t, n) /\ RFrame
    \/ \E t \in Tickers, th \in ThresholdValues :
          SnapAtRest /\ ViewSinceCall(t, th) /\ RFrame
    \/ ViewSinceHeader /\ RFrame
    \/ ReadColsHeader /\ RFrame
    \/ ReadColsHeader2 /\ RFrame
    \/ ReadColsRetry /\ RFrame
    \/ ViewLastNSlice /\ RFrame
    \/ ViewSinceMask /\ RFrame
    \/ ViewSincePick /\ RFrame
    \/ ReaderReturn /\ RFrame
    \/ SnapAtRest /\ ColumnarReaderClose /\ RFrame
    \/ ColumnarReaderOpen /\ RFrame
    \/ \E batch \in ShmBatches :
          RingAtRest /\ pghost.calls < MaxReadBatches /\ WriteDataBegin(batch) /\ PFrame
    \/ WriteDataMark /\ PFrame
    \/ WriteDataStore /\ PFrame
    \/ WriteDataRaise /\ PFrame
    \/ WriteDataSeal /\ PFrame
    \/ WriteDataQuote /\ PFrame
    \/ WriteDataFinish /\ PFrame
    \/ PublishChunk /\ PFrame
    \/ WriteDataReturn /\ PFrame
    \/ \E t \in SnapTickers : RingAtRest /\ GetStockLayout(t) /\ SFrame
    \/ \E t \in SnapTickers : RingAtRest /\ GetStockUnconfigured(t) /\ SFrame
    \/ \E t \in SnapTickers : RingAtRest /\ GetStockCall(t) /\ SFrame
    \/ \E conf \in ReaderConfs : RingAtRest /\ ListTickersConfigured(conf) /\ SFrame
    \/ RingAtRest /\ ListTickersCall /\ SFrame
    \/ LoadChunk /\ SFrame
    \/ FirstDecodeError /\ SFrame
    \/ FirstKeyError /\ SFrame
    \/ FirstOdd /\ SFrame
    \/ FirstEven /\ SFrame
    \/ SecondDecodeError /\ SFrame
    \/ SecondStable /\ SFrame
    \/ SecondChanged /\ SFrame
    \/ ListTickersReturn /\ SFrame
    \/ GetStockReturn /\ SFrame
    \/ RingAtRest /\ StockDataReaderClose /\ SFrame
    \/ StockDataReaderOpen /\ SFrame

SpecReaders == Init /\ [][NextReaders]_vars

\* the same with one ticker published; the thread that called get_stock is
\* scheduled again and again
NextShmLive == ShmNext(LiveBatches)

SpecShmLive == Init /\ [][NextShmLive]_vars /\ WF_vars(GetStockStep /\ SFrame)

\* what a step of the arbitration leaves alone
IFrame == UNCHANGED <<ringVars, snapVars, sliceVars, serverVars, fundVars, layVars, dlVars>>

\* the clients, the collaborator and the arbitration
NextIbkr ==
    \/ \E c \in Conns : ClientConnect(c) /\ IFrame
    \/ \E c \in Conns : ClientClose(c) /\ IFrame
    \/ \E c \in Conns : Len(replies) < MaxEvents /\ AcquireIbkr(c) /\ IFrame
    \/ \E c \in Conns : Len(replies) < MaxEvents /\ ReleaseIbkr(c) /\ IFrame
    \/ Len(replies) < MaxEvents /\ OnIbkrConnectionFailed /\ IFrame
    \/ CollaboratorReturns /\ IFrame
    \/ DownloadStarted /\ IFrame
    \/ DownloadFinished /\ IFrame

SpecIbkr == Init /\ [][NextIbkr]_vars

\* ring_slice called on its own with every array and every pair of indices
InitSlice ==
    /\ WriterInit /\ ReaderInit /\ PublisherInit /\ SnapReaderInit /\ IbkrInit
    /\ SliceCalled /\ ServerIdle /\ FundInit /\ DownloaderIdle /\ LayoutIdle

NextSlice == RingSliceReturn /\ UNCHANGED <<ringVars, snapVars, ibkrVars, serverVars, fundVars, layVars, dlVars>>

SpecSlice == InitSlice /\ [][NextSlice]_vars

\* the server handles the lines of one connection after the other, whatever
\* lines, while the publisher publishes one-row batches of one ticker
InitServer ==
    /\ WriterInit /\ ReaderInit /\ PublisherInit /\ SnapReaderInit /\ IbkrInit
    /\ SliceIdle /\ ServerConnected /\ FundInit /\ DownloaderIdle /\ LayoutIdle

\* the batches published next to the server
MaxServerBatches == 1

NextServer ==
    \/ ClientConnects /\ UNCHANGED <<ringVars, snapVars, ibkrVars, sliceVars, fundVars, layVars, dlVars>>
    \/ NextLineRead /\ UNCHANGED <<ringVars, snapVars, ibkrVars, sliceVars, fundVars, layVars, dlVars>>
    \/ HandleLine /\ UNCHANGED <<ringVars, snapVars, ibkrVars, sliceVars, fundVars, layVars, dlVars>>
    \/ IdleTimeout /\ UNCHANGED <<ringVars, snapVars, ibkrVars, sliceVars, fundVars, layVars, dlVars>>
    \/ ClientEof /\ UNCHANGED <<ringVars, snapVars, ibkrVars, sliceVars, fundVars, layVars, dlVars>>
    \/ \E batch \in LiveBatches :
          pghost.calls < MaxServerBatches /\ WriteDataBegin(batch) /\ PFrame
    \/ WriteDataMark /\ PFrame
    \/ WriteDataStore /\ PFrame
    \/ WriteDataRaise /\ PFrame
    \/ WriteDataSeal /\ PFrame
    \/ WriteDataQuote /\ PFrame
    \/ WriteDataFinish /\ PFrame
    \/ PublishChunk /\ PFrame
    \/ WriteDataReturn /\ PFrame

SpecServer == InitServer /\ [][NextServer]_vars

\* the publisher starts on a region too small for one entry and publishes
\* one-row batches; a server configured with the region's name, or with
\* none, answers get_shm_name requests
InitRegion ==
    /\ WriterInit /\ ReaderInit /\ PublisherOn(SmallRegion) /\ SnapReaderInit /\ IbkrInit
    /\ SliceIdle /\ ServerConnected /\ FundInit /\ DownloaderIdle /\ LayoutIdle

MaxRegionBatches == 2

\* the get_shm_name requests, complete or not
RegionLines == {l \in Lines : l.kind = "object" /\ l.request.type = Str("get_shm_name")}

\* what a step of the server leaves alone
QFrame == UNCHANGED <<ringVars, snapVars, ibkrVars, sliceVars, fundVars, layVars, dlVars>>

NextRegion ==
    \/ ClientConnects /\ QFrame
    \/ \E line \in RegionLines : ReadLine(line) /\ QFrame
    \/ HandleLine /\ QFrame
    \/ IdleTimeout /\ QFrame
    \/ ClientEof /\ QFrame
    \/ \E batch \in ShmBatches :
          pghost.calls < MaxRegionBatches /\ WriteDataBegin(batch) /\ PFrame
    \/ WriteDataMark /\ PFrame
    \/ WriteDataStore /\ PFrame
    \/ WriteDataRaise /\ PFrame
    \/ WriteDataSeal /\ PFrame
    \/ WriteDataQuote /\ PFrame
    \/ WriteDataFinish /\ PFrame
    \/ Reallocate /\ PFrame
    \/ PublishChunk /\ PFrame
    \/ WriteDataReturn /\ PFrame

SpecRegion == InitRegion /\ [][NextRegion]_vars

\* get_fundamentals requests, the background refresh and the passing of time
FFrame == UNCHANGED <<ringVars, snapVars, ibkrVars, sliceVars, serverVars, layVars, dlVars>>

NextFund ==
    \/ \E fresh \in BOOLEAN :
          Len(fund_out) < MaxFundRequests /\ GetFundamentals(fresh) /\ FFrame
    \/ RefreshCompletes /\ FFrame
    \/ SourceChanges /\ FFrame
    \/ FundTick /\ FFrame

SpecFund == Init /\ [][NextFund]_vars

\* the cache alone: set, get and is_expired calls in any order while the
\* clock advances
NextCache ==
    \/ \E dto \in 1 .. MaxFundVersion : CacheSet(dto) /\ FFrame
    \/ CacheGet /\ FFrame
    \/ CacheIsExpired /\ FFrame
    \/ FundTick /\ FFrame

SpecCache == Init /\ [][NextCache]_vars

\* the downloader thread next to the server answering acquire_ibkr and
\* release_ibkr and the collaborator carrying out its instructions
InitDownload ==
    /\ WriterInit /\ ReaderInit /\ PublisherInit /\ SnapReaderInit /\ IbkrInit
    /\ SliceIdle /\ ServerIdle /\ FundInit /\ LayoutIdle /\ DownloaderStarts

DFrame == UNCHANGED <<ringVars, snapVars, sliceVars, serverVars, fundVars, layVars>>

NextDownload ==
    \/ \E ok \in BOOLEAN : ReconcileConnects(ok) /\ DFrame
    \/ ReconcileStarted /\ DFrame
    \/ \E raises \in BOOLEAN : ReconcileFinished(raises) /\ DFrame
    \/ \E ok \in BOOLEAN : AgentConnects(ok) /\ DFrame
    \/ AgentStarted /\ DFrame
    \/ DownloadReturns /\ DFrame
    \/ DownloadRaises /\ DFrame
    \/ \E ok \in BOOLEAN : CollaboratorActs(ok) /\ DFrame
    \/ \E c \in Conns : ClientConnect(c) /\ IFrame
    \/ \E c \in Conns : Len(replies) < MaxEvents /\ AcquireIbkr(c) /\ IFrame
    \/ \E c \in Conns : Len(replies) < MaxEvents /\ ReleaseIbkr(c) /\ IFrame

\* the thread is scheduled as long as it has a step to take
SpecDownload ==
    InitDownload /\ [][NextDownload]_vars /\ WF_vars(DownloaderStep /\ DFrame)

\* two writers, one on each ticker of an index whose layouts are disjoint,
\* with or without a gap between them, interleaved at every store
InitLayout ==
    /\ WriterInit /\ ReaderInit /\ PublisherInit /\ SnapReaderInit /\ IbkrInit
    /\ SliceIdle /\ ServerIdle /\ FundInit /\ DownloaderIdle
    /\ \E gap \in {0, LayGap} : LayoutOn(compute_layout(0, Capacity).end + gap)

LFrame == UNCHANGED <<ringVars, snapVars, ibkrVars, sliceVars, serverVars, fundVars, dlVars>>

NextLayout ==
    \/ \E t \in LayTickers :
          Len(lay_hist[t]) < MaxLayAppends /\ LayAppendBegin(t) /\ LFrame
    \/ \E t \in LayTickers : LayAppendCols(t) /\ LFrame
    \/ \E t \in LayTickers : LayAppendEnd(t) /\ LFrame

SpecLayout == InitLayout /\ [][NextLayout]_vars

(***************************************************************************)
(* Properties of the columnar ring buffer                                  *)
(***************************************************************************)
\* the cells of row i of the returned tuple, by column
RowCells(i) == [c \in ColSet |-> Returned(c)[i]]

\* the cells an appended row r of hist puts into its slot
CellsOf(r) == [c \in ColSet |-> [val |-> IF c = "ts" THEN r.ts ELSE r.px, by |-> r.by]]

\* an append on ticker t is between its two header publications
InProgress(t) == wpc \in {"cols", "end"} /\ wargs.ticker = t

\* C1: when the reader's two bracketing header reads were equal with an even
\* seqlock, the six values of every returned row were stored by one and the
\* same append call.
C1_StableReadNotTorn ==
    (rpc = "done" /\ rghost.stable) =>
        \A c \in ColSet :
            /\ Len(Returned(c)) = Len(Returned("ts"))
            /\ \A i \in 1 .. Len(Returned(c)) : Returned(c)[i].by = Returned("ts")[i].by

\* C2: view_last_n and view_since never return rows read while the seqlock
\* was odd or the header had changed: a call that returns has a last header
\* with an even seqlock and read no column data from an unstable region.
C2_NoUnstableReturn ==
    rpc = "done" => (rhdr.last.seqlock % 2 = 0 /\ ~rghost.dirty)

\* C4: with no append in progress, once capacity + k rows are appended,
\* view_last_n(ticker, capacity) returns exactly the capacity most recent
\* rows in append order, and no reader result holds a cell of the earliest
\* k rows.
C4_LastCapacityRows ==
    LET t == rargs.ticker
        len == Len(hist[t])
    IN  (rpc = "done" /\ rghost.quiet /\ len >= Capacity) =>
          /\ (rargs.op = "view_last_n" /\ rargs.n = Capacity) =>
                \A c \in ColSet :
                    /\ Len(Returned(c)) = Capacity
                    /\ \A i \in 1 .. Capacity :
                          Returned(c)[i] = CellsOf(hist[t][len - Capacity + i])[c]
          /\ \A c \in ColSet : \A i \in 1 .. Len(Returned(c)) :
                \A j \in 1 .. (len - Capacity) : Returned(c)[i].by # hist[t][j].by

\* a quiet view_last_n(ticker, capacity) after capacity + 1 appends
C4_Witness ==
    /\ rpc = "done" /\ rghost.quiet
    /\ rargs.op = "view_last_n" /\ rargs.n = Capacity
    /\ Len(hist[rargs.ticker]) = Capacity + 1
    /\ Len(Returned("ts")) = Capacity

\* C5: the seqlock of a ticker is 0 after construction, grows by 2 with
\* each completed append, and is odd exactly while an append on that ticker
\* is between its begin-write and end-write header publications.
C5_SeqlockParity ==
    \A t \in Tickers :
        /\ hdr[t].seqlock = 2 * Len(hist[t]) + (IF InProgress(t) THEN 1 ELSE 0)
        /\ (hdr[t].seqlock % 2 = 1) <=> InProgress(t)

\* the second append of a ticker is in progress, another ticker has one done
C5_Witness ==
    /\ wpc = "end"
    /\ hdr[wargs.ticker].seqlock = 3
    /\ \E t \in Tickers : ~InProgress(t) /\ hdr[t].seqlock = 2

\* C6: every published header has write_idx < capacity and the capacity of
\* construction; each append advances write_idx by one modulo capacity, sets
\* last_ts to the appended ts and returns (new write_idx, ts).
C6_HeaderFields ==
    \A t \in Tickers :
        LET len == Len(hist[t])
        IN  /\ hdr[t].capacity = Capacity
            /\ hdr[t].write_idx < Capacity
            /\ hdr[t].write_idx = len % Capacity
            /\ hdr[t].last_ts = (IF len = 0 THEN 0 ELSE hist[t][len].ts)
            /\ \A j \in 1 .. len : hist[t][j].ret = <<j % Capacity, hist[t][j].ts>>
            /\ (wpc = "idle" /\ len > 0 /\ hist[t][len].by = nApp) => wret = hist[t][len].ret

\* the append that wraps the ring has returned (1, 1)
C6_Witness ==
    /\ wpc = "idle"
    /\ \E t \in Tickers :
          /\ Len(hist[t]) = Capacity + 1
          /\ hdr[t].write_idx = 1
          /\ hist[t][Capacity + 1].ts = 1
          /\ wret = <<1, 1>>

(***************************************************************************)
(* Properties of the snapshot publisher                                    *)
(***************************************************************************)
\* a write_data call is between its batch-entry and batch-exit increments
BatchInProgress == ppc \in {"mark", "store", "seal", "quote", "finish"}

\* the entry of ticker t is between its two epoch increments
EntryInProgress(t) == ppc \in {"store", "seal"} /\ CurKey = t

\* C7: the global snapshot epoch is odd exactly while a write_data batch is
\* between its entry and exit increments and even otherwise, and a call that
\* has passed its exit increment has raised it by exactly 2.
C7_GlobalEpochParity ==
    /\ (snapshot_state.epoch % 2 = 1) <=> BatchInProgress
    /\ ppc = "publish" => snapshot_state.epoch = pghost.pre + 2

\* C8: an entry's epoch starts at 0 and is twice the records written for its
\* ticker, plus one exactly while its data and last_update_ms are being
\* replaced; so it is even, and 2 per record, whenever no record is in hand.
C8_EntryEpochs ==
    \A t \in SnapTickers :
        shared_dict[t].epoch =
            2 * pghost.sealed[t] + (IF EntryInProgress(t) THEN 1 ELSE 0)

(***************************************************************************)
(* Properties of the snapshot reader                                       *)
(***************************************************************************)
\* C9: a payload get_stock returns was taken under an even epoch that the
\* second load showed unchanged, and it is the data of one completed write of
\* that ticker: its scalar fields and its rows were stored by the same write.
C9_StablePayload ==
    (spc = "done" /\ sret.kind = "payload") =>
        /\ sghost.e1 % 2 = 0
        /\ sghost.e1 = sghost.e2
        /\ sret.payload.meta.ticker = sargs.ticker
        /\ sret.payload.meta.by > 0
        /\ sret.payload.meta.by = sret.payload.df.by

\* C10: get_stock makes max_retries attempts at most, each of two loads at
\* most, raises the unstable-snapshot error only when the last attempt is
\* spent, and every call comes to its end whatever the publisher does.
C10_GetStockTerminates ==
    /\ [](/\ sloc.attempt <= MaxRetries
          /\ sghost.loads <= 2
          /\ sret.kind = "RuntimeError" => sloc.attempt = MaxRetries)
    /\ (spc \in {"load", "first", "second"}) ~> (spc = "done")

\* a call spent every attempt while the publisher was in the middle of a
\* batch, and raised the unstable-snapshot error
C10_Witness ==
    /\ spc = "done"
    /\ sret.kind = "RuntimeError"
    /\ sloc.attempt = MaxRetries
    /\ ppc # "idle"
    /\ pghost.completed >= 1

(***************************************************************************)
(* Properties of the arbitration                                           *)
(***************************************************************************)
\* the replies of one status written so far
Count(status) == Cardinality({i \in 1 .. Len(replies) : replies[i].status = status})

\* acquisitions granted and not yet released
Outstanding == Count("acquired") - Count("released")

\* C3: at most one acquisition is outstanding, and it is so exactly in HELD;
\* an acquire_ibkr answered while HELD is answered with the CONFLICT error,
\* and leaves state, owner and the instructions to the collaborator as they are.
C3_MutualExclusion ==
    /\ [](Outstanding \in {0, 1} /\ (Outstanding = 1 <=> ibkr_state = "HELD"))
    /\ [][(/\ ibkr_state = "HELD"
           /\ Len(replies') = Len(replies) + 1
           /\ replies'[Len(replies')].op = "acquire_ibkr")
          => (/\ replies'[Len(replies')].kind = "error"
              /\ replies'[Len(replies')].status = "CONFLICT"
              /\ ibkr_state' = ibkr_state
              /\ ibkr_owner' = ibkr_owner
              /\ instr' = instr)]_vars

\* the owner's own acquire and another connection's acquire were both
\* answered CONFLICT while the resource stayed HELD
C3_Witness ==
    /\ ibkr_state = "HELD"
    /\ Len(replies) >= 3
    /\ replies[Len(replies)].status = "CONFLICT"
    /\ replies[Len(replies)].conn # ibkr_owner
    /\ replies[Len(replies) - 1].status = "CONFLICT"
    /\ replies[Len(replies) - 1].conn = ibkr_owner
    /\ instr = <<"disconnect_from_ibkr_tws">>

\* the line written last
LastReply == replies[Len(replies)]

\* this step answers a request of type op: one line more, and not a push
Answered(op) ==
    /\ Len(replies') = Len(replies) + 1
    /\ replies'[Len(replies')].op = op
    /\ replies'[Len(replies')].kind # "push"

\* the instructions of one kind given to the collaborator so far
Instructed(what) == Cardinality({i \in 1 .. Len(instr) : instr[i] = what})

\* C11: an acquire_ibkr answered in FREE with no download in progress is
\* answered 'acquired', with the disconnect instruction given to the
\* collaborator and the state HELD by the requester; no 'acquired' reply
\* exists without its disconnect instruction.
C11_AcquireWhenFree ==
    /\ [](Count("acquired") <= Instructed("disconnect_from_ibkr_tws"))
    /\ [][(ibkr_state = "FREE" /\ ~is_downloading /\ Answered("acquire_ibkr"))
          => (/\ replies'[Len(replies')].kind = "response"
              /\ replies'[Len(replies')].status = "acquired"
              /\ instr' = Append(instr, "disconnect_from_ibkr_tws")
              /\ ibkr_state' = "HELD"
              /\ ibkr_owner' = replies'[Len(replies')].conn)]_vars

\* connection 2 has just been granted the resource that connection 1 held
\* and released before
C11_Witness ==
    /\ Len(replies) >= 3
    /\ LastReply = Line(2, "acquire_ibkr", "response", "acquired")
    /\ ibkr_state = "HELD"
    /\ ibkr_owner = 2
    /\ ~is_downloading
    /\ instr = <<"disconnect_from_ibkr_tws", "connect_to_ibkr_tws", "disconnect_from_ibkr_tws">>
    /\ replies[1].conn = 1

\* C12: a release_ibkr answered in HELD is answered 'released', with the
\* connect instruction given and the state FREE; one answered in FREE gets
\* the BAD_REQUEST error, the state stays FREE and no instruction is given.
C12_ReleaseByState ==
    [][Answered("release_ibkr")
       => IF ibkr_state = "HELD"
          THEN /\ replies'[Len(replies')].kind = "response"
               /\ replies'[Len(replies')].status = "released"
               /\ instr' = Append(instr, "connect_to_ibkr_tws")
               /\ ibkr_state' = "FREE"
               /\ ibkr_owner' = NoOwner
          ELSE /\ replies'[Len(replies')].kind = "error"
               /\ replies'[Len(replies')].status = "BAD_REQUEST"
               /\ ibkr_state' = "FREE"
               /\ instr' = instr]_vars

\* a release was accepted and the next one, in FREE, was rejected
C12_Witness ==
    /\ Len(replies) >= 3
    /\ LastReply.status = "BAD_REQUEST"
    /\ replies[Len(replies) - 1].status = "released"
    /\ ibkr_state = "FREE"
    /\ instr = <<"disconnect_from_ibkr_tws", "connect_to_ibkr_tws">>

Pushed ==
    /\ Len(replies') = Len(replies) + 1
    /\ replies'[Len(replies')].kind = "push"

\* the last line written to connection c is the pushed release_requested
PushPending(c) ==
    \E i \in 1 .. Len(replies) :
        /\ replies[i].conn = c
        /\ replies[i].kind = "push"
        /\ \A j \in (i + 1) .. Len(replies) : replies[j].conn # c

PushStanding(c) ==
    \E i \in 1 .. Len(replies) :
        /\ replies[i].conn = c
        /\ replies[i].kind = "push"
        /\ replies[i].status = "release_requested"
        /\ \A j \in (i + 1) .. Len(replies) : replies[j].status # "released"

C16_RingSliceIndexOrder ==
    slice_pc = "done"
    => LET arr == slice_args.arr
           cap == slice_args.capacity
           s == slice_args.start % cap
           e == slice_args.end % cap
       IN  IF s < e
           THEN slice_ret = [i \in 1 .. (e - s) |-> arr[s + i - 1]]
           ELSE IF s > e
           THEN slice_ret = [i \in 1 .. (cap - s + e) |->
                                IF i <= cap - s THEN arr[s + i - 1] ELSE arr[i - (cap - s) - 1]]
           ELSE slice_ret = [i \in 1 .. cap |-> arr[i - 1]]

\* C16, amended: with s and e taken modulo cap, ring_slice returns the slots
\* s, s+1, ... (modulo cap) up to but not including e, in that order; when
\* s = e these are all cap slots starting at s, that is arr[s:] ++ arr[:s].
C16_RingSliceLogicalOrder ==
    slice_pc = "done"
    => LET arr == slice_args.arr
           cap == slice_args.capacity
           s == slice_args.start % cap
           e == slice_args.end % cap
           len == IF s < e THEN e - s ELSE cap - s + e
       IN  slice_ret = [i \in 1 .. len |-> arr[(s + i - 1) % cap]]

\* a full-buffer slice that starts inside the buffer came back rotated
C16_Witness ==
    /\ slice_pc = "done"
    /\ slice_args.start = 1
    /\ slice_args.end = 1
    /\ slice_args.arr = [i \in 0 .. (SliceCap - 1) |-> i]
    /\ slice_ret = [i \in 1 .. SliceCap |-> i % SliceCap]

\* the values view_last_n(ticker, n) is to return for column c: those of the
\* slots write_idx - min(n, capacity) up to write_idx - 1, modulo capacity
LastSlots(t, n, c) ==
    LET cap == hdr[t].capacity
        m == Min(n, cap)
    IN  [i \in 1 .. m |-> col[t][c][(hdr[t].write_idx - m + i - 1) % cap]]

\* C17: for every n >= 0, with no append in progress, view_last_n(ticker, n)
\* returns for each of the six columns exactly min(n, capacity) values: those
\* of the ring slots write_idx - min(n, capacity) up to write_idx - 1 (modulo
\* capacity), in that order.
C17_ViewLastN ==
    (rpc = "done" /\ rghost.quiet /\ rargs.op = "view_last_n")
    => \A c \in ColSet : Returned(c) = LastSlots(rargs.ticker, rargs.n, c)

\* the rows the ring of ticker t holds, oldest first: the last capacity rows
\* appended to it
HeldRows(t) ==
    LET len == Len(hist[t])
        m == Min(len, Capacity)
    IN  [i \in 1 .. m |-> hist[t][len - m + i]]

\* the held rows whose timestamp exceeds the threshold, oldest first
RowsSince(t, ts_threshold) ==
    LET Later(r) == r.ts > ts_threshold
    IN  SelectSeq(HeldRows(t), Later)

\* C18: with no append in progress, view_since(ticker, t) returns exactly the
\* rows held in the ring whose timestamp is strictly greater than t, in
\* chronological order; the six columns have the same length and the i-th
\* element of every column belongs to the same appended row.
C18_ViewSince ==
    (rpc = "done" /\ rghost.quiet /\ rargs.op = "view_since")
    => LET rows == RowsSince(rargs.ticker, rargs.ts_threshold)
       IN  \A c \in ColSet :
               /\ Len(Returned(c)) = Len(rows)
               /\ \A i \in 1 .. Len(rows) : Returned(c)[i] = CellsOf(rows[i])[c]

Lacking(request) == {f \in {"v", "id", "type"} : ~Has(request, f)}

\* C20: for every line that parses as a JSON object lacking a non-empty set
\* M of the envelope fields v, id, type, the server sends exactly one line,
\* a BAD_REQUEST error whose message names every field of M, and dispatches
\* no operation.
C20_MissingFieldsNamedTogether ==
    (srv_pc = "done" /\ srv_line.kind = "object" /\ Lacking(srv_line.request) # {})
    => /\ Len(srv_out) = 1
       /\ srv_out[1].type = "error"
       /\ srv_out[1].code = "BAD_REQUEST"
       /\ \A f \in Lacking(srv_line.request) :
             \E i \in 1 .. Len(srv_out[1].message.names) : srv_out[1].message.names[i] = f
       /\ srv_ops = <<>>

\* the request {"v": 1} was answered with one error naming id and type
C20_Witness ==
    /\ srv_pc = "done"
    /\ srv_line.kind = "object"
    /\ srv_line.request = [NoRequest EXCEPT !.v = Num(1)]
    /\ srv_out = <<send_error(Null, "BAD_REQUEST",
                              Message("Missing required fields", <<"id", "type">>))>>
    /\ srv_ops = <<>>

\* the id a reply to the line read has to carry: the id of its request, null
\* when the line is no JSON object or its object has no id
IdOfLine == IF srv_line.kind = "object" THEN Get(srv_line.request, "id") ELSE Null

\* C21: every response line and every error line sent in reply to a request
\* carries the id of that request, null only when the line could not be
\* parsed or had no id; no reply carries the id of another request.
C21_ReplyEchoesId ==
    srv_line.kind # ""
    => \A i \in 1 .. Len(srv_out) :
          /\ srv_out[i].type \in {"response", "error"}
          /\ srv_out[i].id = IdOfLine

\* after a request with id r1 on the same connection, a malformed line was
\* answered with the id null
C21_Witness ==
    /\ srv_pc = "done"
    /\ srv_line.kind = "malformed"
    /\ srv_loc.req_id = Str("r1")
    /\ Len(srv_out) = 1
    /\ srv_out[1].id = Null

\* the line read is a get_quote request with a complete envelope for the
\* ticker named t
IsGetQuote(t) ==
    /\ srv_line.kind = "object"
    /\ Missing(srv_line.request) = <<>>
    /\ srv_line.request.type = Str("get_quote")
    /\ srv_line.request.ticker = Str(t)

\* C22: get_quote for a ticker absent from the quote cache is answered with
\* a NOT_FOUND error; for a present ticker the reply has stale = true if and
\* only if now_ms - ts_epoch_ms > freshness_window_ms, so an age equal to
\* the window is not stale.
C22_GetQuoteStale ==
    [][\A t \in {"X", "Z"} :
          (srv_pc = "line" /\ srv_pc' = "done" /\ IsGetQuote(t))
          => /\ Len(srv_out') = 1
             /\ IF t \in DOMAIN quote_cache /\ quote_cache[t].present
                THEN /\ srv_out'[1].type = "response"
                     /\ srv_out'[1].op = "get_quote"
                     /\ srv_out'[1].data.ticker = t
                     /\ srv_out'[1].data.ts_epoch_ms = quote_cache[t].ts_epoch_ms
                     /\ srv_out'[1].data.stale
                           <=> (srv_loc'.now_ms - quote_cache[t].ts_epoch_ms
                                   > FreshnessWindowMs)
                ELSE /\ srv_out'[1].type = "error"
                     /\ srv_out'[1].code = "NOT_FOUND"]_vars

\* a quote whose age is exactly the freshness window was reported not stale
C22_Witness ==
    /\ srv_pc = "done"
    /\ IsGetQuote("X")
    /\ srv_out[1].type = "response"
    /\ srv_loc.now_ms - srv_out[1].data.ts_epoch_ms = FreshnessWindowMs
    /\ ~srv_out[1].data.stale

\* C23: when the handler of a request raises, the server sends one INTERNAL
\* error with the text of the exception and the id of the request, keeps the
\* connection open, and the next line of the connection is read and handled.
C23_HandlerException ==
    /\ [][(/\ srv_pc = "line"
           /\ srv_pc' # "line"
           /\ srv_line.kind = "object"
           /\ Missing(srv_line.request) = <<>>
           /\ Raises(srv_line.request))
          => /\ Len(srv_out') = 1
             /\ srv_out'[1].type = "error"
             /\ srv_out'[1].code = "INTERNAL"
             /\ srv_out'[1].message.text = "unhashable type: 'list'"
             /\ srv_out'[1].id = Get(srv_line.request, "id")
             /\ srv_pc' = "done"]_vars
    /\ []((srv_pc = "done" /\ Len(srv_out) = 1 /\ srv_out[1].code = "INTERNAL")
          => ENABLED NextLineRead)
    /\ [][(/\ srv_loc.raised
           /\ srv_pc = "line"
           /\ srv_pc' # "line"
           /\ srv_line.kind = "object"
           /\ Missing(srv_line.request) = <<>>
           /\ srv_line.request.type = Str("get_snapshot_epoch"))
          => /\ srv_pc' = "done"
             /\ Len(srv_out') = 1
             /\ srv_out'[1].type = "response"
             /\ srv_out'[1].id = Get(srv_line.request, "id")
             /\ srv_out'[1].data.epoch = snapshot_state.epoch]_vars

\* on a connection on which a handler has raised, a later get_snapshot_epoch
\* was answered with a response
C23_Witness ==
    /\ srv_pc = "done"
    /\ srv_loc.raised
    /\ srv_line.kind = "object"
    /\ srv_line.request.type = Str("get_snapshot_epoch")
    /\ Len(srv_out) = 1
    /\ srv_out[1].type = "response"
    /\ srv_out[1].id = Str("r1")

\* C24: a line longer than max_line_bytes is answered with one BAD_REQUEST
\* error and is neither JSON-parsed nor dispatched to an operation, whatever
\* its content.
C24_LongLineUnparsed ==
    (srv_pc \in {"done", "closed"} /\ srv_line.kind \in {"too_long", "over_limit"})
    => /\ Len(srv_out) = 1
       /\ srv_out[1].type = "error"
       /\ srv_out[1].code = "BAD_REQUEST"
       /\ ~srv_loc.parsed
       /\ srv_ops = <<>>

\* an over-long line that holds a complete list_tickers request was
\* rejected, and the connection goes on
C24_Witness ==
    /\ srv_pc = "done"
    /\ srv_line = [kind |-> "too_long", request |-> LongRequest]
    /\ srv_out = <<send_error(Null, "BAD_REQUEST", Message("Line too long", <<>>))>>
    /\ srv_ops = <<>>
    /\ ~srv_loc.parsed

\* C25: when a connection delivers no input for idle_timeout_s, the server
\* closes it and sends no response or error line for the timeout.
C25_IdleTimeoutSilent ==
    /\ [][(srv_pc \in {"wait", "done"} /\ srv_pc' = "closed") => srv_out' = srv_out]_vars
    /\ [](srv_pc \in {"wait", "done"} => ENABLED IdleTimeout)

\* a connection that had one request answered was closed while waiting for
\* its next line, with nothing more sent
C25_Witness ==
    /\ srv_pc = "closed"
    /\ srv_line.kind = "object"
    /\ Len(srv_out) = 1
    /\ srv_out[1].type = "response"


StateReading == {"list_tickers", "get_quote", "get_snapshot_epoch"}

\* C27: a handler of list_tickers, get_quote or get_snapshot_epoch reads
\* QuoteCache and GlobalSnapshotState only while the publisher is not inside
\* a write_data batch (the coarse lock is not the writer's), and no
\* get_snapshot_epoch reply carries the odd epoch of a batch in progress.
C27_HandlersReadUnderLock ==
    /\ [][(srv_pc = "line" /\ srv_ops' # <<>> /\ srv_ops'[1] \in StateReading)
              => lock = "free"]_vars
    /\ [](\A i \in DOMAIN srv_out :
              (srv_out[i].type = "response" /\ srv_out[i].op = "get_snapshot_epoch")
                  => srv_out[i].data.epoch % 2 = 0)


\* C28: get_fundamentals is answered in every state, refresh running or not,
\* with what FundamentalsCache.get gives at that moment; a request with fresh
\* leaves a background refresh running, and the reply is sent with the cache
\* as it was, not with what the refresh will store.
C28_FundamentalsAnswerCached ==
    /\ [](\A fresh \in BOOLEAN : ENABLED GetFundamentals(fresh))
    /\ [][fund_out' # fund_out =>
            LET reply == fund_out'[Len(fund_out')]
            IN  /\ reply.value = FundamentalsCache_get(fund_store, fund_now)
                /\ reply.fresh => fund_refresh' = "running"
                /\ fund_store' = fund_store]_vars

\* a fresh request answered with the cached version while the collaborator
\* has a newer one and the refresh is still running
C28_Witness ==
    /\ fund_out # <<>>
    /\ fund_out[Len(fund_out)].fresh
    /\ fund_out[Len(fund_out)].value # NoDto
    /\ fund_out[Len(fund_out)].value # fund_source
    /\ fund_refresh = "running"


DisjointLayouts ==
    \/ LayoutOf("A").end <= LayoutOf("B").offset
    \/ LayoutOf("B").end <= LayoutOf("A").offset

\* the header and the six columns of ticker t, read from the bytes
TickerState(b, t) ==
    [header |-> HEADER_STRUCT_unpack(b, LayoutOf(t)), columns |-> column_views(b, LayoutOf(t))]

\* the row that the appends rows leave in slot i of a ring of cap slots
RECURSIVE SlotAfter(_, _, _)
SlotAfter(rows, i, cap) ==
    IF rows = <<>> THEN 0
    ELSE IF (Len(rows) - 1) % cap = i THEN rows[Len(rows)]
    ELSE SlotAfter(SubSeq(rows, 1, Len(rows) - 1), i, cap)

\* the state of a ticker after the appends rows and no other store
StateAfter(rows) ==
    [header |-> [write_idx |-> Len(rows) % Capacity, capacity |-> Capacity,
                 last_ts |-> IF rows = <<>> THEN 0 ELSE rows[Len(rows)],
                 seqlock |-> 2 * Len(rows)],
     columns |-> [cn \in LayCols |->
                     [i \in 0 .. (Capacity - 1) |-> SlotAfter(rows, i, Capacity)]]]

\* C30: with the two layouts on disjoint byte ranges, a step of an append on
\* one ticker leaves the header and the six columns of the other ticker as
\* they were, and however the appends on the two tickers interleave, a ticker
\* with no append in progress is in the state its own appends alone give.
C30_AppendsIndependent ==
    /\ [][DisjointLayouts =>
            \A t \in LayTickers :
                lay_pc'[t] = lay_pc[t] => TickerState(lay_buf', t) = TickerState(lay_buf, t)]_vars
    /\ [](DisjointLayouts =>
            \A t \in LayTickers :
                lay_pc[t] = "idle" => TickerState(lay_buf, t) = StateAfter(lay_hist[t]))

\* ticker B has wrapped its ring and is done while the append that wraps the
\* ring of ticker A is between its column stores and its closing header
C30_Witness ==
    /\ DisjointLayouts
    /\ Len(lay_hist["B"]) = MaxLayAppends
    /\ Len(lay_hist["A"]) = MaxLayAppends - 1
    /\ lay_pc["A"] = "end"
    /\ lay_pc["B"] = "idle"


\* a reader has taken a step: its position or what it holds has changed
ReaderMoved ==
    \/ <<rpc, rargs, rhdr, rwin, rcols, rmask, rout>>' # <<rpc, rargs, rhdr, rwin, rcols, rmask, rout>>
    \/ snapReaderVars' # snapReaderVars

\* C31: no step of a reader operation (view_last_n, view_since, list_tickers,
\* get_stock, close) changes the region, the lock, or anything of the writer,
\* and whatever the reader is doing, an append or a write_data batch that has
\* begun can take its next step.
C31_ReadersLeaveRegionAndWriter ==
    /\ [][ReaderMoved => UNCHANGED <<hdr, col, wVars, pubVars>>]_vars
    /\ [](wpc = "cols" => ENABLED AppendStore)
    /\ [](wpc = "end" => ENABLED AppendEnd)
    /\ [](ppc # "idle" =>
            ENABLED (\/ WriteDataMark \/ WriteDataStore \/ WriteDataRaise \/ WriteDataSeal
                     \/ WriteDataQuote \/ WriteDataFinish \/ PublishChunk \/ WriteDataReturn))

\* a reader's call completed although the writer took steps during it, and
\* the append is still in progress
C31_Witness ==
    /\ rpc = "done"
    /\ ~rghost.quiet
    /\ wpc = "end"

(***************************************************************************)
(* The order of the stores of one append                                   *)
(***************************************************************************)
\* the columns of slot i of ticker t that append call number n has stored
StoredBy(t, i, n) == {c \in ColSet : col[t][c][i].by = n}

\* the first k columns in the order ts, o, h, l, c, v
FirstCols(k) == {ColNames[j] : j \in 1 .. k}

\* an append is between its two header writes: the header it published has an
\* odd seqlock and the write_idx it read, and the columns stored so far are a
\* prefix of ts, o, h, l, c, v in slot write_idx
AppendInProgress ==
    wpc # "idle" =>
        LET t == wargs.ticker
        IN  /\ hdr[t].seqlock % 2 = 1
            /\ hdr[t].write_idx = wloc.wi
            /\ StoredBy(t, wloc.wi, nApp) = FirstCols(wloc.k - 1)
            /\ wpc = "end" <=> wloc.k = 7

\* the first header write: seqlock + 1, every other field and every column
\* as they were
FirstHeaderWrite ==
    (wpc = "idle" /\ wpc' = "cols") =>
        LET t == wargs'.ticker
        IN  /\ hdr' = [hdr EXCEPT ![t].seqlock = @ + 1]
            /\ hdr'[t].seqlock % 2 = 1
            /\ col' = col

\* a column store: one cell, of the next column in order, in slot write_idx,
\* with the header as it was
ColumnWrite ==
    wpc = "cols" =>
        LET t == wargs.ticker
            c == ColNames[wloc.k]
        IN  /\ hdr' = hdr
            /\ col' = [col EXCEPT ![t][c][hdr[t].write_idx] =
                          [val |-> ArgOf(wargs, c), by |-> nApp]]

\* the second header write: after the six stores, write_idx advanced, last_ts
\* the new timestamp, seqlock even
SecondHeaderWrite ==
    (wpc = "end" /\ wpc' = "idle") =>
        LET t == wargs.ticker
        IN  /\ StoredBy(t, wloc.wi, nApp) = ColSet
            /\ hdr'[t].write_idx = (hdr[t].write_idx + 1) % hdr[t].capacity
            /\ hdr'[t].last_ts = wargs.ts
            /\ hdr'[t].seqlock = hdr[t].seqlock + 1
            /\ hdr'[t].seqlock % 2 = 0
            /\ col' = col

\* C32: in every append the header with the odd seqlock and the unchanged
\* write_idx is published before any column is written, the six values go
\* into slot write_idx in the order ts, o, h, l, c, v, and the header with the
\* advanced write_idx, the new last_ts and the even seqlock is published only
\* after all six column writes.
C32_AppendStoreOrder ==
    /\ []AppendInProgress
    /\ [][FirstHeaderWrite /\ ColumnWrite /\ SecondHeaderWrite]_vars

\* the third append, into a slot that an earlier append filled, has stored
\* ts, o and h and not yet l, c and v
C32_Witness ==
    /\ wpc = "cols"
    /\ nApp = MaxAppends
    /\ wloc.k = 4
    /\ hist[wargs.ticker] # << >>
    /\ col[wargs.ticker]["l"][wloc.wi].by \notin {0, nApp}

(***************************************************************************)
(* Properties of FundamentalsCache                                         *)
(***************************************************************************)
\* what get is to return at time at after the set call last
ExpectedGet(last, at) ==
    IF last.set /\ at - last.at <= TtlSeconds THEN last.dto ELSE NoDto

\* C33: get returns the most recently set value exactly when it was set no
\* more than ttl_seconds ago and None otherwise, and a get and an is_expired
\* call at the same time after the same set agree: get is None exactly when
\* is_expired is true.
C33_CacheGetAndExpiry ==
    /\ fund_seen.get.called =>
          fund_seen.get.value = ExpectedGet(fund_seen.get.last, fund_seen.get.at)
    /\ ( /\ fund_seen.get.called
         /\ fund_seen.is_expired.called
         /\ fund_seen.get.at = fund_seen.is_expired.at
         /\ fund_seen.get.last = fund_seen.is_expired.last )
       => (fund_seen.get.value = NoDto <=> fund_seen.is_expired.value)

\* the second value set is exactly ttl_seconds old: get returned it and
\* is_expired returned false
C33_Witness ==
    /\ fund_seen.get.called
    /\ fund_seen.is_expired.called
    /\ fund_seen.get.last = [set |-> TRUE, dto |-> 2, at |-> 1]
    /\ fund_seen.is_expired.last = fund_seen.get.last
    /\ fund_seen.get.at = 1 + TtlSeconds
    /\ fund_seen.is_expired.at = 1 + TtlSeconds
    /\ fund_seen.get.value = 2
    /\ ~fund_seen.is_expired.value

(***************************************************************************)
(* Ownership of the IBKR resource and connections                          *)
(***************************************************************************)
\* C34: ownership is not tied to the connection that acquired it: closing a
\* connection leaves the state as it was, so after 'acquired' and the close of
\* that connection an acquire_ibkr on a later connection is answered CONFLICT,
\* and a release_ibkr on a different connection is answered 'released'.
C34_OwnershipOutlivesConnection ==
    /\ [][conns' # conns => UNCHANGED <<ibkr_state, ibkr_owner>>]_vars
    /\ [][(ibkr_state = "HELD" /\ Answered("acquire_ibkr"))
            => replies'[Len(replies')].status = "CONFLICT"]_vars
    /\ [][(ibkr_state = "HELD" /\ Answered("release_ibkr"))
            => /\ replies'[Len(replies')].status = "released"
               /\ ibkr_state' = "FREE"]_vars

\* connection 1 acquired and has closed; connection 2 was answered CONFLICT
\* and then 'released'
C34_Witness ==
    /\ 1 \notin conns
    /\ Len(replies) = 3
    /\ replies[1] = Line(1, "acquire_ibkr", "response", "acquired")
    /\ replies[2] = Line(2, "acquire_ibkr", "error", "CONFLICT")
    /\ replies[3] = Line(2, "release_ibkr", "response", "released")
    /\ ibkr_state = "FREE"

(***************************************************************************)
(* Rows returned and rows appended                                         *)
(***************************************************************************)
\* the cells of the returned tuple that no append has stored
NeverWritten == {<<c, i>> \in ColSet \X (1 .. Capacity) :
                    i <= Len(Returned(c)) /\ Returned(c)[i].by = 0}

\* C35: view_last_n and view_since return only rows that were appended: no
\* slot that was never written appears in the result, also when fewer rows
\* than requested, or than capacity, have been appended.
C35_OnlyAppendedRows ==
    (rpc = "done" /\ rghost.quiet) => NeverWritten = {}

(***************************************************************************)
(* Epochs while no batch is being written                                  *)
(***************************************************************************)
\* C36: whenever no write_data call is executing, the global snapshot epoch
\* and the header epoch of every stored entry are even, also after a
\* write_data call that raised part-way.
C36_EpochsEvenAtRest ==
    ppc = "idle" =>
        /\ snapshot_state.epoch % 2 = 0
        /\ \A t \in SnapTickers : shared_dict[t].epoch % 2 = 0

(***************************************************************************)
(* Replies and the life of a connection                                    *)
(***************************************************************************)
\* this step is the pass of the loop over the line read
LineHandled == srv_pc = "line" /\ srv_pc' # "line"

\* C37: on one connection every complete line read (a valid request,
\* malformed JSON, a JSON value that is not an object, an oversized line)
\* produces exactly one reply line, sent before the next line is read, so the
\* replies are in the order of the lines.
C37_OneReplyPerLine ==
    [][LineHandled => (Len(srv_out') = 1 /\ srv_line' = srv_line)]_vars

\* C38: the server closes a connection only on EOF or on the idle timeout,
\* both met while it waits for a line; the pass over a line read, whatever
\* the line holds (malformed, not an object, oversized, unknown type, failing
\* handler), leaves the connection open.
C38_ClosedOnlyOnEofOrTimeout ==
    [][LineHandled => srv_pc' = "done"]_vars

(***************************************************************************)
(* The instructions given to the collaborator                              *)
(***************************************************************************)
\* the instruction that position i of an alternating sequence holds
InstructionAt(i) ==
    IF i % 2 = 1 THEN "disconnect_from_ibkr_tws" ELSE "connect_to_ibkr_tws"

C40_DownloadFinishes == is_downloading ~> ~is_downloading

====
